---- MODULE Spec2Model ----
(***************************************************************************)
(* Model of the OrganizeFinance backend (Express handlers over a Prisma    *)
(* store): the goal routes, the transaction routes, the financial summary  *)
(* and the 6-month chart.                                                  *)
(*                                                                         *)
(* Request payloads are JavaScript values.  The handlers test them with    *)
(* truthiness, isNaN and relational operators (which coerce with Number)   *)
(* and convert them with parseFloat, and the two conversions disagree on   *)
(* some strings, so the model keeps the values and both conversions.       *)
(* Amounts are integers: the fractional part of a REAL is not modelled.    *)
(***************************************************************************)
EXTENDS Integers, Sequences, FiniteSets, TLC

VARIABLES
    goals,        \* table Goal: id -> row
    nextGoalId,   \* AUTOINCREMENT counter of table Goal
    txs,          \* table Transaction: id -> row
    nextTxId,     \* AUTOINCREMENT counter of table Transaction
    now,          \* the server clock, an instant (in slots since the epoch)
    tz,           \* the server's time-zone offset (local = UTC + tz), in slots
    last,         \* the last request handled and the response sent for it
    users,        \* table User: id -> row
    sessions,     \* the session store: browser -> session
    calls         \* the requests in flight: the handlers suspended at an await

vars == <<goals, nextGoalId, txs, nextTxId, now, tz, last, users, sessions, calls>>

-----------------------------------------------------------------------------
(* Bounds of the model *)

NumUsers == 2
MaxGoals == 1
MaxListed == 3
MaxCalls == 2
MaxTxs == 2
MaxAmount == 2
MaxTicks == 2
SlotsPerDay == 2
DaysPerMonth == 2

Users == 1..NumUsers

-----------------------------------------------------------------------------
(* JavaScript values *)

Undefined == [t |-> "undefined"]
Null == [t |-> "null"]
NaN == [t |-> "nan"]
Num(n) == [t |-> "number", v |-> n]
\* a string whose characters the code inspects: a sequence of characters
Str(cs) == [t |-> "string", s |-> cs]
\* a string the code only compares or stores
Txt(x) == [t |-> "text", x |-> x]

IsNum(v) == v.t = "number"

\* JavaScript truthiness: if (v), !v, v || w
Truthy(v) ==
    CASE v.t = "undefined" -> FALSE
      [] v.t = "null" -> FALSE
      [] v.t = "nan" -> FALSE
      [] v.t = "number" -> v.v # 0
      [] v.t = "string" -> Len(v.s) > 0
      [] v.t = "text" -> v.x # ""
      [] OTHER -> TRUE

DecDigits == <<"0", "1", "2", "3", "4", "5", "6", "7", "8", "9">>
HexDigits == DecDigits \o <<"a", "b", "c", "d", "e", "f">>

IsDigit(c) == \E i \in 1..Len(DecDigits) : DecDigits[i] = c
IsHexDigit(c) == \E i \in 1..Len(HexDigits) : HexDigits[i] = c
DigitVal(c) == (CHOOSE i \in 1..Len(HexDigits) : HexDigits[i] = c) - 1
IsSpace(c) == c = " "

RECURSIVE TrimLeft(_)
TrimLeft(cs) ==
    IF cs # <<>> /\ IsSpace(Head(cs)) THEN TrimLeft(Tail(cs)) ELSE cs

RECURSIVE TrimRight(_)
TrimRight(cs) ==
    IF cs # <<>> /\ IsSpace(cs[Len(cs)])
    THEN TrimRight(SubSeq(cs, 1, Len(cs) - 1))
    ELSE cs

\* the value of a sequence of digits in the given base
RECURSIVE DigitsValue(_, _, _)
DigitsValue(cs, base, acc) ==
    IF cs = <<>> THEN acc
    ELSE DigitsValue(Tail(cs), base, acc * base + DigitVal(Head(cs)))

\* the longest prefix of decimal digits
RECURSIVE DigitPrefix(_)
DigitPrefix(cs) ==
    IF cs # <<>> /\ IsDigit(Head(cs))
    THEN <<Head(cs)>> \o DigitPrefix(Tail(cs))
    ELSE <<>>

AllDigits(cs) == cs # <<>> /\ \A i \in 1..Len(cs) : IsDigit(cs[i])
AllHexDigits(cs) == cs # <<>> /\ \A i \in 1..Len(cs) : IsHexDigit(cs[i])

\* StringToNumber of the language (integer literals): the whole trimmed
\* string must be a literal; the empty string is 0; 0x.. is hexadecimal
StringToNumber(cs) ==
    LET s == TrimRight(TrimLeft(cs)) IN
    IF s = <<>> THEN Num(0)
    ELSE IF Len(s) > 2 /\ s[1] = "0" /\ s[2] = "x" /\ AllHexDigits(SubSeq(s, 3, Len(s)))
      THEN Num(DigitsValue(SubSeq(s, 3, Len(s)), 16, 0))
    ELSE IF AllDigits(s) THEN Num(DigitsValue(s, 10, 0))
    ELSE IF s[1] = "-" /\ AllDigits(Tail(s)) THEN Num(0 - DigitsValue(Tail(s), 10, 0))
    ELSE IF s[1] = "+" /\ AllDigits(Tail(s)) THEN Num(DigitsValue(Tail(s), 10, 0))
    ELSE NaN

\* Number(v), the coercion applied by isNaN and by <, <=, >=
ToNumber(v) ==
    CASE v.t = "undefined" -> NaN
      [] v.t = "null" -> Num(0)
      [] v.t = "nan" -> NaN
      [] v.t = "number" -> v
      [] v.t = "string" -> StringToNumber(v.s)
      [] OTHER -> NaN

\* isNaN(v)
isNaN(v) == ToNumber(v) = NaN

\* v < 0, v <= 0 on any value: false when Number(v) is NaN
LtZero(v) == LET n == ToNumber(v) IN IsNum(n) /\ n.v < 0
LeZero(v) == LET n == ToNumber(v) IN IsNum(n) /\ n.v <= 0

\* a >= b, a < b on numbers: false when either is NaN
NumGeStrict(a, b) == IsNum(a) /\ IsNum(b) /\ a.v > b.v

NumGe(a, b) == IsNum(a) /\ IsNum(b) /\ a.v >= b.v
NumLt(a, b) == IsNum(a) /\ IsNum(b) /\ a.v < b.v

\* parseFloat of a string (integer literals): leading blanks are skipped, then
\* the longest decimal prefix is read; what follows it is ignored
ParseFloatChars(cs) ==
    LET s == TrimLeft(cs)
        neg == s # <<>> /\ s[1] = "-"
        body == IF s # <<>> /\ (s[1] = "-" \/ s[1] = "+") THEN Tail(s) ELSE s
        ds == DigitPrefix(body)
    IN  IF ds = <<>> THEN NaN
        ELSE IF neg THEN Num(0 - DigitsValue(ds, 10, 0))
        ELSE Num(DigitsValue(ds, 10, 0))

\* parseFloat(v): v is converted to a string first
parseFloat(v) ==
    CASE v.t = "number" -> v
      [] v.t = "string" -> ParseFloatChars(v.s)
      [] OTHER -> NaN

-----------------------------------------------------------------------------
(* Dates.  An instant is a number of slots since the epoch (UTC); a day has  *)
(* SlotsPerDay slots, a month DaysPerMonth days, a year 12 months.  Years    *)
(* are counted from the epoch year.                                          *)

SlotsPerMonth == SlotsPerDay * DaysPerMonth
SlotsPerYear == 12 * SlotsPerMonth
TzOffsets == {0 - 1, 0, 1}

\* the local-time getters of Date
getFullYear(i) == (i + tz) \div SlotsPerYear
getMonth(i) == ((i + tz) % SlotsPerYear) \div SlotsPerMonth
getDate(i) == (((i + tz) % SlotsPerMonth) \div SlotsPerDay) + 1

\* the day number of (year, month, day); month may lie outside 0..11 and is
\* carried into the year
MakeDayYearCarryLost(y, m, d) ==
    ((y * 12 + (m % 12)) * DaysPerMonth) + (d - 1)

MakeDay(y, m, d) ==
    LET ym == y + (m \div 12)
        mn == m % 12
    IN  ((ym * 12 + mn) * DaysPerMonth) + (d - 1)

\* new Date(year, month, day): local midnight of that day
LocalDate(y, m, d) == MakeDay(y, m, d) * SlotsPerDay - tz

\* date.setHours(0, 0, 0, 0): local midnight of the instant's local day
setHoursZero(i) == (((i + tz) \div SlotsPerDay) * SlotsPerDay) - tz

\* date strings of a payload: "YYYY-MM-DD" is read as UTC midnight,
\* "YYYY-MM-DDTHH:mm" as local time
DateOnly(y, m, d) == [t |-> "datestr", local |-> FALSE, y |-> y, m |-> m, d |-> d, slot |-> 0]
DateTimeLocal(y, m, d, sl) == [t |-> "datestr", local |-> TRUE, y |-> y, m |-> m, d |-> d, slot |-> sl]

\* new Date(v).getTime(): the instant, or NaN for an Invalid Date
NewDate(v) ==
    CASE v.t = "datestr" ->
           IF v.local
           THEN Num(MakeDay(v.y, v.m, v.d) * SlotsPerDay + v.slot - tz)
           ELSE Num(MakeDay(v.y, v.m, v.d) * SlotsPerDay)
      [] v.t = "null" -> Num(0)
      [] OTHER -> NaN

isDateInPastByADay(d) == setHoursZero(d) < setHoursZero(now) - SlotsPerDay

isDateInPast(d) == setHoursZero(d) < setHoursZero(now)

\* validateIntegerId: /^\d+$/ then parseInt(value, 10); Null when rejected
validateIntegerIdParseInt(value) ==
    IF DigitPrefix(value) = <<>> THEN Null ELSE Num(DigitsValue(DigitPrefix(value), 10, 0))

validateIntegerId(value) ==
    IF ~AllDigits(value) THEN Null ELSE Num(DigitsValue(value, 10, 0))

-----------------------------------------------------------------------------
(* Responses *)

(* The record of a handled request: the route, the session's user, the :id  *)
(* segment, one field of the body (sent), what the handler had read of the  *)
(* row named by :id when it answered (seen), and the response: HTTP        *)
(* status, message or error, body.                                         *)

Resp(op, u, id, code, msg, seen, body) ==
    [op |-> op, user |-> u, id |-> id, sent |-> Undefined, code |-> code, msg |-> msg,
     seen |-> seen, body |-> body]

\* the same record, with the field of the request body that selects the
\* handler's case: status for a goal update, amount for a progress update
Sent(resp, v) == [resp EXCEPT !.sent = v]

NotSeen == [found |-> FALSE]
seenGoal(row) ==
    IF row = Null THEN NotSeen
    ELSE [found |-> TRUE, userId |-> row.userId, status |-> row.status]
seenTx(row) ==
    IF row = Null THEN NotSeen
    ELSE [found |-> TRUE, userId |-> row.userId]

\* what the client receives
Http(resp) == [code |-> resp.code, msg |-> resp.msg, body |-> resp.body]

NoId == <<>>

-----------------------------------------------------------------------------
(* Users and sessions.  A browser holds one session cookie; its session has  *)
(* a userId once a registration or a login stored one.  User ids start at 1, *)
(* so userId 0 stands for the userId that is not there.  A profile photo is  *)
(* [image, big]: whether the string starts with data:image/ and whether      *)
(* three quarters of its length exceed 2 MB.                                 *)

\* the table User behind the routes of goals and transactions: every user
\* has an account, with the e-mail address u@<id>
Accounts ==
    [k \in Users |->
        [id |-> k, email |-> <<"u", "@", DecDigits[k + 1]>>, name |-> "nome",
         password |-> [hash |-> "segredo"]]]

\* function isAuthenticated: the test of req.session.userId
isAuthenticated(session) == session.userId # 0

\* prisma.user.findUnique({ where: { email } })
userByEmail(U, email) ==
    IF \E k \in DOMAIN U : U[k].email = email.s
    THEN U[CHOOSE k \in DOMAIN U : U[k].email = email.s]
    ELSE Null

\* POST /api/auth/register up to the answer of findUnique: the response when
\* the handler answers there, Null when it goes on to create the user
registerFind(U, session, p) ==
    LET fail(msg) == Resp("authRegister", session.userId, NoId, 400, msg, NotSeen, Null) IN
    IF ~Truthy(p.email) \/ ~Truthy(p.name) \/ ~Truthy(p.password)
    THEN fail("Todos os campos sao obrigatorios")
    ELSE IF Len(p.password.x) < 6
    THEN fail("A senha deve ter no minimo 6 caracteres")
    ELSE IF Truthy(p.profilePhoto) /\ ~p.profilePhoto.image
    THEN fail("Formato de imagem invalido")
    ELSE IF Truthy(p.profilePhoto) /\ p.profilePhoto.big
    THEN fail("Imagem muito grande. Maximo 2MB")
    ELSE IF userByEmail(U, p.email) # Null
    THEN fail("Email ja cadastrado")
    ELSE Null

\* POST /api/auth/register from the answer of findUnique on: bcrypt.hash,
\* prisma.user.create (refused by the unique index User_email_key when the
\* email is stored, which the handler catches), the session, the response
registerCreate(U, S, c, p) ==
    IF userByEmail(U, p.email) # Null
    THEN [users |-> U, sessions |-> S,
          resp |-> Resp("authRegister", S[c].userId, NoId, 500, "Erro ao criar usuario",
                        NotSeen, Null)]
    ELSE LET user == [id |-> Cardinality(DOMAIN U) + 1, email |-> p.email.s,
                      name |-> p.name.x, password |-> [hash |-> p.password.x]]
         IN  [users |-> (user.id :> user) @@ U,
              sessions |-> [S EXCEPT ![c] = [userId |-> user.id, userName |-> user.name]],
              resp |-> Resp("authRegister", S[c].userId, NoId, 200,
                            "Usuario registrado com sucesso!", NotSeen,
                            [id |-> user.id, email |-> user.email, name |-> user.name])]

\* POST /api/auth/login
authLogin(U, S, c, p) ==
    LET answer(code, msg, body) ==
            Resp("authLogin", S[c].userId, NoId, code, msg, NotSeen, body)
        user == userByEmail(U, p.email)
    IN
    IF ~Truthy(p.email) \/ ~Truthy(p.password)
    THEN [sessions |-> S, resp |-> answer(400, "Email e senha sao obrigatorios", Null)]
    ELSE IF user = Null
    THEN [sessions |-> S, resp |-> answer(401, "Email ou senha invalidos", Null)]
    ELSE IF user.password.hash # p.password.x
    THEN [sessions |-> S, resp |-> answer(401, "Email ou senha invalidos", Null)]
    ELSE [sessions |-> [S EXCEPT ![c] = [userId |-> user.id, userName |-> user.name]],
          resp |-> answer(200, "Login realizado com sucesso!",
                          [id |-> user.id, email |-> user.email, name |-> user.name])]

\* POST /api/auth/logout: req.session.destroy, whatever the session holds
authLogout(S, c) ==
    [sessions |-> [S EXCEPT ![c] = [userId |-> 0, userName |-> ""]],
     resp |-> Resp("authLogout", S[c].userId, NoId, 200, "Logout realizado com sucesso!",
                   NotSeen, Null)]

\* GET /api/auth/me, behind isAuthenticated; the answer is the row without
\* its password
authMe(U, session) ==
    IF ~isAuthenticated(session)
    THEN Resp("authMe", 0, NoId, 401, "Nao autenticado", NotSeen, Null)
    ELSE IF session.userId \notin DOMAIN U
    THEN Resp("authMe", session.userId, NoId, 404, "Usuario nao encontrado", NotSeen, Null)
    ELSE Resp("authMe", session.userId, NoId, 200, "", NotSeen,
              [k \in (DOMAIN U[session.userId]) \ {"password"} |-> U[session.userId][k]])

\* GET /api/auth/check
authCheck(session) ==
    Resp("authCheck", session.userId, NoId, 200, "", NotSeen,
         IF isAuthenticated(session)
         THEN [authenticated |-> TRUE, userId |-> session.userId,
               userName |-> session.userName]
         ELSE [authenticated |-> FALSE])

-----------------------------------------------------------------------------
(* Goals *)

GoalStatuses == {"active", "completed", "cancelled"}

Min(a, b) == IF a < b THEN a ELSE b

\* Math.round(c / t * 100) for t > 0: the nearest integer, halves upwards
RoundPercent(c, t) == (200 * c + t) \div (2 * t)

progressUncapped(goal) ==
    IF goal.targetAmount > 0
    THEN RoundPercent(goal.currentAmount, goal.targetAmount)
    ELSE 0

\* goal.targetAmount > 0 ? Math.min(Math.round(current / target * 100), 100) : 0
progress(goal) ==
    IF goal.targetAmount > 0
    THEN Min(RoundPercent(goal.currentAmount, goal.targetAmount), 100)
    ELSE 0

\* { ...goal, progress }
withProgress(goal) == goal @@ ("progress" :> progress(goal))

\* the row findUnique returns, Null when there is none
findGoal(G, gid) == IF IsNum(gid) /\ gid.v \in DOMAIN G THEN G[gid.v] ELSE Null

\* v || null
OrNullKeepsEmpty(v) == IF v = Null THEN Null ELSE v

OrNull(v) == IF Truthy(v) THEN v ELSE Null

\* prisma rejects a write that carries NaN for a REAL NOT NULL column: the
\* call throws and the handler's catch answers 500
NumericColumns == {"targetAmount", "currentAmount", "amount", "deadline", "date"}
writeThrows(data) == \E k \in (DOMAIN data) \cap NumericColumns : data[k] = NaN

\* the row after prisma.goal.update({ data }): the keys of data replace the
\* stored ones; numbers are stored as such
mergeRowResetsAmounts(row, data) ==
    [k \in DOMAIN row |->
        IF k \in DOMAIN data
        THEN IF k \in NumericColumns THEN data[k].v ELSE data[k]
        ELSE IF k \in {"targetAmount", "currentAmount", "amount"} THEN 0 ELSE row[k]]

mergeRow(row, data) ==
    [k \in DOMAIN row |->
        IF k \in DOMAIN data
        THEN IF k \in NumericColumns THEN data[k].v ELSE data[k]
        ELSE row[k]]

\* POST /api/goals
goalCreate(G, nid, u, p) ==
    LET fail(code, msg) ==
            [goals |-> G, nextId |-> nid,
             resp |-> Resp("goalCreate", u, NoId, code, msg, NotSeen, Null)]
    IN
    IF ~Truthy(p.name) \/ ~Truthy(p.targetAmount) \/ ~Truthy(p.deadline)
    THEN fail(400, "Nome, valor alvo e prazo sao obrigatorios")
    ELSE IF isNaN(p.targetAmount) \/ LeZero(p.targetAmount)
    THEN fail(400, "Valor alvo deve ser um numero positivo")
    ELSE IF p.currentAmount # Undefined /\ (isNaN(p.currentAmount) \/ LtZero(p.currentAmount))
    THEN fail(400, "Valor atual deve ser um numero nao-negativo")
    ELSE LET parsedDeadline == NewDate(p.deadline) IN
    IF parsedDeadline = NaN
    THEN fail(400, "Prazo invalido")
    ELSE IF isDateInPast(parsedDeadline.v)
    THEN fail(400, "Prazo nao pode estar no passado")
    ELSE
    LET finalCurrentAmount ==
            IF Truthy(p.currentAmount) THEN parseFloat(p.currentAmount) ELSE Num(0)
        finalTargetAmount == parseFloat(p.targetAmount)
        initialStatus ==
            IF NumGe(finalCurrentAmount, finalTargetAmount) THEN "completed" ELSE "active"
    IN
    IF finalCurrentAmount = NaN \/ finalTargetAmount = NaN
    THEN fail(500, "Erro ao criar meta")
    ELSE
    LET goal == [id |-> nid, userId |-> u, name |-> p.name.x,
                 targetAmount |-> finalTargetAmount.v,
                 currentAmount |-> finalCurrentAmount.v,
                 deadline |-> parsedDeadline.v,
                 category |-> OrNull(p.category),
                 description |-> OrNull(p.description),
                 status |-> initialStatus]
    IN  [goals |-> (nid :> goal) @@ G, nextId |-> nid + 1,
         resp |-> Resp("goalCreate", u, NoId, 201, "Meta criada com sucesso!", NotSeen, goal)]

\* the status part of updateData in PUT /api/goals/:id
updateStatusNoReactivation(existingGoal, status, finalCurrentAmount, finalTargetAmount) ==
    IF ~Truthy(status)
    THEN IF NumGe(finalCurrentAmount, finalTargetAmount)
         THEN ("status" :> "completed")
         ELSE <<>>
    ELSE ("status" :> status.x)

updateStatusAutoOverridesExplicit(existingGoal, status, finalCurrentAmount, finalTargetAmount) ==
    IF NumGe(finalCurrentAmount, finalTargetAmount)
    THEN ("status" :> "completed")
    ELSE IF Truthy(status) THEN ("status" :> status.x)
    ELSE IF existingGoal.status = "completed" /\ NumLt(finalCurrentAmount, finalTargetAmount)
         THEN ("status" :> "active")
         ELSE <<>>

updateStatus(existingGoal, status, finalCurrentAmount, finalTargetAmount) ==
    IF ~Truthy(status)
    THEN IF NumGe(finalCurrentAmount, finalTargetAmount)
         THEN ("status" :> "completed")
         ELSE IF existingGoal.status = "completed"
                 /\ NumLt(finalCurrentAmount, finalTargetAmount)
              THEN ("status" :> "active")
              ELSE <<>>
    ELSE ("status" :> status.x)

\* PUT /api/goals/:id
goalUpdate(G, u, id, p) ==
    LET goalId == validateIntegerId(id)
        existingGoal == findGoal(G, goalId)
        fail(code, msg) ==
            [goals |-> G, resp |-> Resp("goalUpdate", u, id, code, msg, seenGoal(existingGoal), Null)]
    IN
    IF goalId = Null
    THEN fail(400, "ID invalido")
    ELSE IF existingGoal = Null \/ existingGoal.userId # u
    THEN fail(404, "Meta nao encontrada")
    ELSE IF Truthy(p.targetAmount) /\ (isNaN(p.targetAmount) \/ LeZero(p.targetAmount))
    THEN fail(400, "Valor alvo deve ser um numero positivo")
    ELSE IF p.currentAmount # Undefined /\ (isNaN(p.currentAmount) \/ LtZero(p.currentAmount))
    THEN fail(400, "Valor atual deve ser um numero nao-negativo")
    ELSE IF Truthy(p.deadline) /\ NewDate(p.deadline) = NaN
    THEN fail(400, "Prazo invalido")
    ELSE IF Truthy(p.deadline) /\ isDateInPast(NewDate(p.deadline).v)
    THEN fail(400, "Prazo nao pode estar no passado")
    ELSE IF Truthy(p.status) /\ ~(p.status.t = "text" /\ p.status.x \in GoalStatuses)
    THEN fail(400, "Status deve ser active, completed ou cancelled")
    ELSE
    LET d1 == IF Truthy(p.name) THEN ("name" :> p.name.x) ELSE <<>>
        d2 == IF Truthy(p.targetAmount)
              THEN ("targetAmount" :> parseFloat(p.targetAmount)) ELSE <<>>
        d3 == IF p.currentAmount # Undefined
              THEN ("currentAmount" :> parseFloat(p.currentAmount)) ELSE <<>>
        d4 == IF Truthy(p.deadline) THEN ("deadline" :> NewDate(p.deadline)) ELSE <<>>
        d5 == IF p.category # Undefined THEN ("category" :> OrNull(p.category)) ELSE <<>>
        d6 == IF p.description # Undefined
              THEN ("description" :> OrNull(p.description)) ELSE <<>>
        finalTargetAmount ==
            IF Truthy(p.targetAmount) THEN parseFloat(p.targetAmount)
            ELSE Num(existingGoal.targetAmount)
        finalCurrentAmount ==
            IF p.currentAmount # Undefined THEN parseFloat(p.currentAmount)
            ELSE Num(existingGoal.currentAmount)
        d7 == updateStatus(existingGoal, p.status, finalCurrentAmount, finalTargetAmount)
        updateData == d7 @@ d6 @@ d5 @@ d4 @@ d3 @@ d2 @@ d1
    IN
    IF writeThrows(updateData)
    THEN fail(500, "Erro ao atualizar meta")
    ELSE
    LET goal == mergeRow(existingGoal, updateData)
    IN  [goals |-> [G EXCEPT ![goalId.v] = goal],
         resp |-> Resp("goalUpdate", u, id, 200, "Meta atualizada com sucesso!",
                       seenGoal(existingGoal), withProgress(goal))]

\* newStatus in PUT /api/goals/:id/amount
newStatusReverts(existingGoal, newCurrentAmount) ==
    IF NumGe(newCurrentAmount, Num(existingGoal.targetAmount)) THEN "completed"
    ELSE IF existingGoal.status = "completed" THEN "active"
    ELSE existingGoal.status

newStatusKeepsCancelled(existingGoal, newCurrentAmount) ==
    IF NumGe(newCurrentAmount, Num(existingGoal.targetAmount))
       /\ existingGoal.status # "cancelled"
    THEN "completed"
    ELSE existingGoal.status

newStatus(existingGoal, newCurrentAmount) ==
    IF NumGe(newCurrentAmount, Num(existingGoal.targetAmount))
    THEN "completed"
    ELSE existingGoal.status

\* the message of a successful PUT /api/goals/:id/amount
progressMessage(existingGoal, status) ==
    IF status = "completed"
    THEN "Parabens! Meta concluida!"
    ELSE "Progresso atualizado com sucesso!"

\* the validation of amount in PUT /api/goals/:id/amount
amountRejected(amount) == ~Truthy(amount) \/ isNaN(amount) \/ LtZero(amount)

\* PUT /api/goals/:id/amount
goalUpdateProgress(G, u, id, p) ==
    LET goalId == validateIntegerId(id)
        existingGoal == findGoal(G, goalId)
        fail(code, msg, seen) ==
            [goals |-> G, resp |-> Resp("goalUpdateProgress", u, id, code, msg, seen, Null)]
    IN
    IF goalId = Null
    THEN fail(400, "ID invalido", NotSeen)
    ELSE IF amountRejected(p.amount)
    THEN fail(400, "Valor deve ser um numero nao-negativo", NotSeen)
    ELSE IF existingGoal = Null \/ existingGoal.userId # u
    THEN fail(404, "Meta nao encontrada", seenGoal(existingGoal))
    ELSE
    LET newCurrentAmount == parseFloat(p.amount)
        status == newStatus(existingGoal, newCurrentAmount)
        updateData == ("currentAmount" :> newCurrentAmount) @@ ("status" :> status)
    IN
    IF writeThrows(updateData)
    THEN fail(500, "Erro ao atualizar progresso", seenGoal(existingGoal))
    ELSE
    LET goal == mergeRow(existingGoal, updateData)
    IN  [goals |-> [G EXCEPT ![goalId.v] = goal],
         resp |-> Resp("goalUpdateProgress", u, id, 200,
                       progressMessage(existingGoal, status),
                       seenGoal(existingGoal), withProgress(goal))]

\* DELETE /api/goals/:id
goalDeleteAnyOwner(G, u, id) ==
    LET goalId == validateIntegerId(id)
        goal == findGoal(G, goalId)
        fail(code, msg) ==
            [goals |-> G, resp |-> Resp("goalDelete", u, id, code, msg, seenGoal(goal), Null)]
    IN
    IF goalId = Null
    THEN fail(400, "ID invalido")
    ELSE IF goal = Null
    THEN fail(404, "Meta nao encontrada")
    ELSE [goals |-> [k \in (DOMAIN G) \ {goalId.v} |-> G[k]],
          resp |-> Resp("goalDelete", u, id, 200, "Meta deletada com sucesso!", seenGoal(goal), Null)]

goalDelete(G, u, id) ==
    LET goalId == validateIntegerId(id)
        goal == findGoal(G, goalId)
        fail(code, msg) ==
            [goals |-> G, resp |-> Resp("goalDelete", u, id, code, msg, seenGoal(goal), Null)]
    IN
    IF goalId = Null
    THEN fail(400, "ID invalido")
    ELSE IF goal = Null \/ goal.userId # u
    THEN fail(404, "Meta nao encontrada")
    ELSE [goals |-> [k \in (DOMAIN G) \ {goalId.v} |-> G[k]],
          resp |-> Resp("goalDelete", u, id, 200, "Meta deletada com sucesso!", seenGoal(goal), Null)]

\* GET /api/goals/:id
goalGetForbidden(G, u, id) ==
    LET goalId == validateIntegerId(id)
        goal == findGoal(G, goalId)
    IN
    IF goalId = Null
    THEN Resp("goalGet", u, id, 400, "ID invalido", NotSeen, Null)
    ELSE IF goal = Null
    THEN Resp("goalGet", u, id, 404, "Meta nao encontrada", seenGoal(goal), Null)
    ELSE IF goal.userId # u
    THEN Resp("goalGet", u, id, 403, "Acesso negado", seenGoal(goal), Null)
    ELSE Resp("goalGet", u, id, 200, "", seenGoal(goal), withProgress(goal))

goalGet(G, u, id) ==
    LET goalId == validateIntegerId(id)
        goal == findGoal(G, goalId)
    IN
    IF goalId = Null
    THEN Resp("goalGet", u, id, 400, "ID invalido", NotSeen, Null)
    ELSE IF goal = Null \/ goal.userId # u
    THEN Resp("goalGet", u, id, 404, "Meta nao encontrada", seenGoal(goal), Null)
    ELSE Resp("goalGet", u, id, 200, "", seenGoal(goal), withProgress(goal))

RECURSIVE SortRowsById(_, _, _)
SortRowsById(S, key, asc) ==
    IF S = {} THEN <<>>
    ELSE LET first == CHOOSE a \in S : \A b \in S : a.id <= b.id
         IN  <<first>> \o SortRowsById(S \ {first}, key, asc)

\* the rows of S (a set of rows) as a sequence ordered by the column key,
\* ascending when asc and descending otherwise; rows with equal keys follow
\* their ids
RECURSIVE SortRows(_, _, _)
SortRows(S, key, asc) ==
    IF S = {} THEN <<>>
    ELSE LET before(a, b) ==
                 \/ (IF asc THEN a[key] < b[key] ELSE a[key] > b[key])
                 \/ (a[key] = b[key] /\ a.id <= b.id)
             first == CHOOSE a \in S : \A b \in S : before(a, b)
         IN  <<first>> \o SortRows(S \ {first}, key, asc)

\* goals.map(goal => ({ ...goal, progress }))
goalsWithProgress(q) == [i \in 1..Len(q) |-> withProgress(q[i])]

rowsOf(T) == {T[k] : k \in DOMAIN T}

\* GET /api/goals?status=
goalList(G, u, status) ==
    LET byStatus == Truthy(status) /\ status.t = "text" /\ status.x \in GoalStatuses
        found == {g \in rowsOf(G) :
                    g.userId = u /\ (byStatus => g.status = status.x)}
    IN  Resp("goalList", u, NoId, 200, "", NotSeen,
             goalsWithProgress(SortRows(found, "deadline", TRUE)))

\* GET /api/goals/latest/recent: createdAt follows the order of insertion,
\* which is the order of the ids
goalRecent(G, u) ==
    LET found == {g \in rowsOf(G) : g.userId = u}
        sorted == SortRows(found, "id", FALSE)
    IN  Resp("goalRecent", u, NoId, 200, "", NotSeen,
             goalsWithProgress(SubSeq(sorted, 1, Min(2, Len(sorted)))))

-----------------------------------------------------------------------------
(* Transactions *)

findTx(T, tid) == IF IsNum(tid) /\ tid.v \in DOMAIN T THEN T[tid.v] ELSE Null

isTxType(v) == v.t = "text" /\ v.x \in {"expense", "income"}

\* POST /api/transactions
txCreate(T, nid, u, p) ==
    LET fail(code, msg) ==
            [txs |-> T, nextId |-> nid,
             resp |-> Resp("txCreate", u, NoId, code, msg, NotSeen, Null)]
    IN
    IF ~Truthy(p.type) \/ ~Truthy(p.category) \/ ~Truthy(p.description)
       \/ ~Truthy(p.amount) \/ ~Truthy(p.date)
    THEN fail(400, "Todos os campos sao obrigatorios")
    ELSE IF ~isTxType(p.type)
    THEN fail(400, "Tipo deve ser expense ou income")
    ELSE IF isNaN(p.amount) \/ LeZero(p.amount)
    THEN fail(400, "Valor deve ser um numero positivo")
    ELSE IF NewDate(p.date) = NaN
    THEN fail(400, "Data invalida")
    ELSE IF parseFloat(p.amount) = NaN
    THEN fail(500, "Erro ao criar transacao")
    ELSE
    LET transaction == [id |-> nid, userId |-> u, type |-> p.type.x,
                        category |-> p.category.x, description |-> p.description.x,
                        amount |-> parseFloat(p.amount).v,
                        date |-> NewDate(p.date).v]
    IN  [txs |-> (nid :> transaction) @@ T, nextId |-> nid + 1,
         resp |-> Resp("txCreate", u, NoId, 201, "Transacao criada com sucesso!",
                       NotSeen, transaction)]

\* PUT /api/transactions/:id
txUpdateDateCheckedLast(T, u, id, p) ==
    LET transactionId == validateIntegerId(id)
        existingTransaction == findTx(T, transactionId)
        fail(code, msg) ==
            [txs |-> T,
             resp |-> Resp("txUpdate", u, id, code, msg, seenTx(existingTransaction), Null)]
    IN
    IF transactionId = Null
    THEN fail(400, "ID invalido")
    ELSE IF existingTransaction = Null \/ existingTransaction.userId # u
    THEN fail(404, "Transacao nao encontrada")
    ELSE IF Truthy(p.type) /\ ~isTxType(p.type)
    THEN fail(400, "Tipo deve ser expense ou income")
    ELSE IF Truthy(p.amount) /\ (isNaN(p.amount) \/ LeZero(p.amount))
    THEN fail(400, "Valor deve ser um numero positivo")
    ELSE
    LET d1 == IF Truthy(p.type) THEN ("type" :> p.type.x) ELSE <<>>
        d2 == IF Truthy(p.category) THEN ("category" :> p.category.x) ELSE <<>>
        d3 == IF Truthy(p.description) THEN ("description" :> p.description.x) ELSE <<>>
        d4 == IF Truthy(p.amount) THEN ("amount" :> parseFloat(p.amount)) ELSE <<>>
        d5 == IF Truthy(p.date) THEN ("date" :> NewDate(p.date)) ELSE <<>>
    IN
    IF writeThrows(d5 @@ d4 @@ d3 @@ d2 @@ d1) /\ ~writeThrows(d4 @@ d3 @@ d2 @@ d1)
    THEN [txs |-> [T EXCEPT ![transactionId.v] =
                      mergeRow(existingTransaction, d4 @@ d3 @@ d2 @@ d1)],
          resp |-> Resp("txUpdate", u, id, 400, "Data invalida",
                        seenTx(existingTransaction), Null)]
    ELSE IF writeThrows(d5 @@ d4 @@ d3 @@ d2 @@ d1)
    THEN fail(500, "Erro ao atualizar transacao")
    ELSE
    LET transaction == mergeRow(existingTransaction, d5 @@ d4 @@ d3 @@ d2 @@ d1)
    IN  [txs |-> [T EXCEPT ![transactionId.v] = transaction],
         resp |-> Resp("txUpdate", u, id, 200, "Transacao atualizada com sucesso!",
                       seenTx(existingTransaction), transaction)]

txUpdate(T, u, id, p) ==
    LET transactionId == validateIntegerId(id)
        existingTransaction == findTx(T, transactionId)
        fail(code, msg) ==
            [txs |-> T,
             resp |-> Resp("txUpdate", u, id, code, msg, seenTx(existingTransaction), Null)]
    IN
    IF transactionId = Null
    THEN fail(400, "ID invalido")
    ELSE IF existingTransaction = Null \/ existingTransaction.userId # u
    THEN fail(404, "Transacao nao encontrada")
    ELSE IF Truthy(p.type) /\ ~isTxType(p.type)
    THEN fail(400, "Tipo deve ser expense ou income")
    ELSE IF Truthy(p.amount) /\ (isNaN(p.amount) \/ LeZero(p.amount))
    THEN fail(400, "Valor deve ser um numero positivo")
    ELSE IF Truthy(p.date) /\ NewDate(p.date) = NaN
    THEN fail(400, "Data invalida")
    ELSE
    LET d1 == IF Truthy(p.type) THEN ("type" :> p.type.x) ELSE <<>>
        d2 == IF Truthy(p.category) THEN ("category" :> p.category.x) ELSE <<>>
        d3 == IF Truthy(p.description) THEN ("description" :> p.description.x) ELSE <<>>
        d4 == IF Truthy(p.amount) THEN ("amount" :> parseFloat(p.amount)) ELSE <<>>
        d5 == IF Truthy(p.date) THEN ("date" :> NewDate(p.date)) ELSE <<>>
        updateData == d5 @@ d4 @@ d3 @@ d2 @@ d1
    IN
    IF writeThrows(updateData)
    THEN fail(500, "Erro ao atualizar transacao")
    ELSE
    LET transaction == mergeRow(existingTransaction, updateData)
    IN  [txs |-> [T EXCEPT ![transactionId.v] = transaction],
         resp |-> Resp("txUpdate", u, id, 200, "Transacao atualizada com sucesso!",
                       seenTx(existingTransaction), transaction)]

\* DELETE /api/transactions/:id
txDelete(T, u, id) ==
    LET transactionId == validateIntegerId(id)
        transaction == findTx(T, transactionId)
        fail(code, msg) ==
            [txs |-> T, resp |-> Resp("txDelete", u, id, code, msg, seenTx(transaction), Null)]
    IN
    IF transactionId = Null
    THEN fail(400, "ID invalido")
    ELSE IF transaction = Null \/ transaction.userId # u
    THEN fail(404, "Transacao nao encontrada")
    ELSE [txs |-> [k \in (DOMAIN T) \ {transactionId.v} |-> T[k]],
          resp |-> Resp("txDelete", u, id, 200, "Transacao deletada com sucesso!",
                        seenTx(transaction), Null)]

\* GET /api/transactions/:id
txGet(T, u, id) ==
    LET transactionId == validateIntegerId(id)
        transaction == findTx(T, transactionId)
    IN
    IF transactionId = Null
    THEN Resp("txGet", u, id, 400, "ID invalido", NotSeen, Null)
    ELSE IF transaction = Null \/ transaction.userId # u
    THEN Resp("txGet", u, id, 404, "Transacao nao encontrada", seenTx(transaction), Null)
    ELSE Resp("txGet", u, id, 200, "", seenTx(transaction), transaction)

\* GET /api/transactions?type=&startDate=&endDate=
txList(T, u, q) ==
    LET byType == Truthy(q.type) /\ isTxType(q.type)
        gte == IF Truthy(q.startDate) THEN NewDate(q.startDate) ELSE Undefined
        lte == IF Truthy(q.endDate) THEN NewDate(q.endDate) ELSE Undefined
        found == {x \in rowsOf(T) :
                    /\ x.userId = u
                    /\ byType => x.type = q.type.x
                    /\ gte # Undefined => x.date >= gte.v
                    /\ lte # Undefined => x.date <= lte.v}
    IN  IF gte = NaN \/ lte = NaN
        THEN Resp("txList", u, NoId, 500, "Erro ao buscar transacoes", NotSeen, Null)
        ELSE Resp("txList", u, NoId, 200, "", NotSeen, SortRows(found, "date", FALSE))

\* transactions.reduce((sum, t) => sum + t.amount, 0)
RECURSIVE SumAmounts(_)
SumAmounts(S) ==
    IF S = {} THEN 0
    ELSE LET x == CHOOSE y \in S : TRUE IN x.amount + SumAmounts(S \ {x})

\* GET /api/transactions/summary/stats
txSummaryAllUsers(T, u) ==
    LET transactions == rowsOf(T)
        income == SumAmounts({x \in transactions : x.type = "income"})
        expenses == SumAmounts({x \in transactions : x.type = "expense"})
    IN  Resp("txSummary", u, NoId, 200, "", NotSeen,
             [income |-> income, expenses |-> expenses, balance |-> income - expenses,
              transactionCount |-> Cardinality(transactions)])

txSummary(T, u) ==
    LET transactions == {x \in rowsOf(T) : x.userId = u}
        income == SumAmounts({x \in transactions : x.type = "income"})
        expenses == SumAmounts({x \in transactions : x.type = "expense"})
    IN  Resp("txSummary", u, NoId, 200, "", NotSeen,
             [income |-> income, expenses |-> expenses, balance |-> income - expenses,
              transactionCount |-> Cardinality(transactions)])

\* toLocaleDateString('pt-BR', { month: 'short' }).replace('.', '')
MonthLabels ==
    <<"jan", "fev", "mar", "abr", "mai", "jun", "jul", "ago", "set", "out", "nov", "dez">>

\* the i-th bucket pushed by the loop for (i = 5; i >= 0; i--)
chartBucketShifted(i) ==
    LET date == LocalDate(getFullYear(now), getMonth(now) - i - 1, 1)
    IN  [month |-> getMonth(date), year |-> getFullYear(date),
         label |-> MonthLabels[getMonth(date) + 1]]

chartBucket(i) ==
    LET date == LocalDate(getFullYear(now), getMonth(now) - i, 1)
    IN  [month |-> getMonth(date), year |-> getFullYear(date),
         label |-> MonthLabels[getMonth(date) + 1]]

\* months before the transactions are added: i = 5 first, i = 0 last
chartMonths == [k \in 1..6 |-> chartBucket(6 - k)]

\* months.findIndex(m => m.month === getMonth(date) && m.year === getFullYear(date)),
\* as a position 1..6 of the array, or 0 for -1
findMonthIndexUTC(months, date) ==
    LET hits == {k \in 1..Len(months) :
                   /\ months[k].month = (date % SlotsPerYear) \div SlotsPerMonth
                   /\ months[k].year = date \div SlotsPerYear}
    IN  IF hits = {} THEN 0 ELSE CHOOSE k \in hits : \A j \in hits : k <= j

findMonthIndex(months, date) ==
    LET hits == {k \in 1..Len(months) :
                   months[k].month = getMonth(date) /\ months[k].year = getFullYear(date)}
    IN  IF hits = {} THEN 0 ELSE CHOOSE k \in hits : \A j \in hits : k <= j

\* GET /api/transactions/chart/monthly
txChart(T, u) ==
    LET startDate == LocalDate(getFullYear(now), getMonth(now) - 5, 1)
        transactions == {x \in rowsOf(T) : x.userId = u /\ x.date >= startDate}
        months == chartMonths
        inBucket(k) == {x \in transactions : findMonthIndex(months, x.date) = k}
    IN  Resp("txChart", u, NoId, 200, "", NotSeen,
             [k \in 1..6 |->
                [month |-> months[k].month, year |-> months[k].year,
                 label |-> months[k].label,
                 income |-> SumAmounts({x \in inBucket(k) : x.type = "income"}),
                 expenses |-> SumAmounts({x \in inBucket(k) : x.type # "income"})]])

-----------------------------------------------------------------------------
(* Handlers in flight.  The routes that change a row by its id await the    *)
(* row (findUnique), answer 400 or 404 at once or go on, and then await the *)
(* write (update or delete), which is one statement of the database on the  *)
(* row with that id.  A call is [op, u, id, p, pc, seen, resp, order]: the  *)
(* request, where the handler is, the row it has read, its response once it *)
(* has answered, and the place of its write among the writes.               *)

\* the handler of route op on the table T of its rows, run without a pause
handle(op, T, u, id, p) ==
    CASE op = "goalUpdateProgress" ->
           LET r == goalUpdateProgress(T, u, id, p) IN [rows |-> r.goals, resp |-> r.resp]
      [] op = "goalUpdate" ->
           LET r == goalUpdate(T, u, id, p) IN [rows |-> r.goals, resp |-> r.resp]
      [] op = "goalDelete" ->
           LET r == goalDelete(T, u, id) IN [rows |-> r.goals, resp |-> r.resp]
      [] op = "txUpdate" ->
           LET r == txUpdate(T, u, id, p) IN [rows |-> r.txs, resp |-> r.resp]
      [] op = "txDelete" ->
           LET r == txDelete(T, u, id) IN [rows |-> r.txs, resp |-> r.resp]

writtenAmountOnly(op, p, seen, row) ==
    IF op = "goalUpdateProgress" THEN {"currentAmount"} ELSE {}

\* the keys of the data that the update of route op writes, for the body p,
\* the row seen and the row that the handler makes of it
written(op, p, seen, row) ==
    CASE op = "goalUpdateProgress" -> {"currentAmount", "status"}
      [] op = "goalUpdate" ->
           {f \in {"name", "targetAmount", "deadline"} : Truthy(p[f])}
             \cup {f \in {"currentAmount", "category", "description"} : p[f] # Undefined}
             \cup (IF Truthy(p.status) \/ row.currentAmount >= row.targetAmount
                       \/ row.status # seen.status
                    THEN {"status"} ELSE {})
      [] op = "txUpdate" ->
           {f \in {"type", "category", "description", "amount", "date"} : Truthy(p[f])}
      [] OTHER -> {}

callWriteRereads(T, c) ==
    LET id == validateIntegerId(c.id).v
        r == handle(c.op, T, c.u, c.id, c.p)
    IN  IF id \notin DOMAIN T
        THEN [rows |-> T, resp |-> Resp(c.op, c.u, c.id, 500, "Erro", seenTx(c.seen), Null)]
        ELSE [rows |-> r.rows, resp |-> r.resp]

callWriteUpserts(T, c) ==
    LET id == validateIntegerId(c.id).v
        r == handle(c.op, (id :> c.seen), c.u, c.id, c.p)
    IN  [rows |-> IF id \in DOMAIN r.rows THEN (id :> r.rows[id]) @@ T
                  ELSE [k \in (DOMAIN T) \ {id} |-> T[k]],
         resp |-> r.resp]

\* the write of the call c on the table T and the response after it: the
\* statement throws when no row has the id, and the handler answers 500
callWrite(T, c) ==
    LET id == validateIntegerId(c.id).v
        r == handle(c.op, (id :> c.seen), c.u, c.id, c.p)
        row == [f \in DOMAIN T[id] |->
                  IF f \in written(c.op, c.p, c.seen, r.rows[id])
                  THEN r.rows[id][f] ELSE T[id][f]]
    IN  IF id \notin DOMAIN T
        THEN [rows |-> T,
              resp |-> Resp(c.op, c.u, c.id, 500,
                            CASE c.op = "goalUpdateProgress" -> "Erro ao atualizar progresso"
                              [] c.op = "goalUpdate" -> "Erro ao atualizar meta"
                              [] c.op = "goalDelete" -> "Erro ao deletar meta"
                              [] c.op = "txUpdate" -> "Erro ao atualizar transacao"
                              [] c.op = "txDelete" -> "Erro ao deletar transacao",
                            r.resp.seen, Null)]
        ELSE IF c.op \in {"goalDelete", "txDelete"}
        THEN [rows |-> [k \in (DOMAIN T) \ {id} |-> T[k]], resp |-> r.resp]
        ELSE [rows |-> [T EXCEPT ![id] = row],
              resp |-> [r.resp EXCEPT
                          !.body = IF c.op = "txUpdate" THEN row ELSE withProgress(row)]]

-----------------------------------------------------------------------------
(* Requests.  Every route below is behind isAuthenticated: u is the        *)
(* session's userId.  A request is [u, id, p]: the user, the :id segment   *)
(* of the URL and the body (or the query).                                 *)

Request(u, id, p) == [u |-> u, id |-> id, p |-> p]

\* the decimal numeral of n, 0 <= n <= 9, as the characters of a URL segment
Numeral(n) == <<DecDigits[n + 1]>>

\* values sent for amount, and for an amount field on its own
AmountValues ==
    {Undefined, Null, Num(0 - 1), Str(<<"0">>), Str(<<"0", "x", "2">>), Str(<<"a">>)}
      \cup {Num(n) : n \in 0..MaxAmount}

\* values sent for targetAmount and currentAmount together
TargetValues ==
    {Undefined, Num(0), Str(<<"0", "x", "2">>)} \cup {Num(n) : n \in 1..MaxAmount}
CurrentValues == {Undefined} \cup {Num(n) : n \in 0..MaxAmount}

\* values sent for status
StatusValues ==
    {Undefined, Txt(""), Txt("active"), Txt("completed"), Txt("cancelled"), Txt("done")}

\* the clock starts on the first day (UTC) of a month of year 1
StartOfMonth(m) == MakeDay(1, m, 1) * SlotsPerDay

\* deadlines sent to the goal routes: a day after the clock's range, a day
\* before it, a string that is no date
FutureDeadline == DateOnly(1, 0, DaysPerMonth)
PastDeadline == DateOnly(0, 11, 1)
BadDate == Txt("amanha")

GoalIds == {Numeral(k) : k \in 1..MaxGoals}
BadId == <<"1", "a">>

\* :id segments that are no integer: a digit followed by a letter, a sign,
\* the empty string
InvalidIds == {<<"7", "a">>, <<"-", "7">>, <<>>, BadId}

GoalCreatePayload(name, target, current, deadline) ==
    [name |-> name, targetAmount |-> target, currentAmount |-> current,
     deadline |-> deadline, category |-> Undefined, description |-> Undefined]

GoalUpdatePayload(target, current, status, deadline) ==
    [name |-> Undefined, targetAmount |-> target, currentAmount |-> current,
     deadline |-> deadline, category |-> Undefined, description |-> Undefined,
     status |-> status]

\* bodies of POST /api/goals: the amounts together, then each field alone
GoalCreatePayloads ==
    {GoalCreatePayload(Txt("meta"), t, c, FutureDeadline) :
        t \in TargetValues, c \in CurrentValues}
      \cup {GoalCreatePayload(Txt("meta"), t, Undefined, FutureDeadline) : t \in AmountValues}
      \cup {GoalCreatePayload(Txt("meta"), Num(1), c, FutureDeadline) : c \in AmountValues}
      \cup {GoalCreatePayload(Txt("meta"), Num(1), Undefined, d) :
              d \in {PastDeadline, BadDate, Undefined}}
      \cup {GoalCreatePayload(Undefined, Num(1), Undefined, FutureDeadline)}

\* every body of POST /api/goals over the amount values, with and without
\* name and deadline
GoalCreatePayloadsAll ==
    {GoalCreatePayload(n, t, c, d) :
        n \in {Undefined, Txt("meta")}, t \in AmountValues, c \in AmountValues,
        d \in {Undefined, FutureDeadline, PastDeadline, BadDate}}

\* bodies of PUT /api/goals/:id: the amounts and the status together, then
\* each field alone
GoalUpdatePayloads ==
    {GoalUpdatePayload(t, c, s, Undefined) :
        t \in TargetValues, c \in CurrentValues, s \in StatusValues}
      \cup {GoalUpdatePayload(t, Undefined, Undefined, Undefined) : t \in AmountValues}
      \cup {GoalUpdatePayload(Undefined, c, Undefined, Undefined) : c \in AmountValues}
      \cup {GoalUpdatePayload(Undefined, Undefined, Undefined, d) :
              d \in {FutureDeadline, PastDeadline, BadDate}}

GoalProgressPayloads == {[amount |-> a] : a \in AmountValues}

\* bodies of PUT /api/goals/:id that edit the texts of a goal, alone or
\* together with currentAmount
GoalEditPayloads ==
    {[GoalUpdatePayload(Undefined, c, Undefined, Undefined)
        EXCEPT !.name = n, !.category = cat, !.description = d] :
        c \in {Undefined, Num(1)}, n \in {Undefined, Txt("novo")},
        cat \in {Undefined, Txt(""), Txt("lazer")}, d \in {Undefined, Txt(""), Txt("ferias")}}

NoBody == [none |-> TRUE]

\* requests to the routes with an :id: every body for the ids the table can
\* hold, one body for an id that is no integer
WithIds(ids, P) ==
    {Request(u, id, p) : u \in Users, id \in ids, p \in P}
      \cup {Request(u, BadId, CHOOSE p \in P : TRUE) : u \in Users}

GoalCreateRequests == {Request(u, NoId, p) : u \in Users, p \in GoalCreatePayloads}
GoalUpdateRequests == WithIds(GoalIds, GoalUpdatePayloads)
GoalProgressRequests == WithIds(GoalIds, GoalProgressPayloads)
GoalIdRequests == WithIds(GoalIds, {NoBody})
GoalListRequests == {Request(u, NoId, [status |-> s]) : u \in Users, s \in StatusValues}
GoalRecentRequests == {Request(u, NoId, NoBody) : u \in Users}

\* values sent for type
TxTypeValues == {Undefined, Txt("expense"), Txt("income"), Txt("transfer")}

\* dates sent to the transaction routes: days before, at the start of, within
\* and after the clock's range
TxDates ==
    {DateOnly(0, 9, 1), DateOnly(1, 0, 1), DateTimeLocal(1, 3, DaysPerMonth, 1),
     DateOnly(2, 0, 1)}

TxIds == {Numeral(k) : k \in 1..MaxTxs}

TxPayload(type, amount, date) ==
    [type |-> type, category |-> Txt("casa"), description |-> Txt("conta"),
     amount |-> amount, date |-> date]

TxUpdatePayload(type, amount, date) ==
    [type |-> type, category |-> Undefined, description |-> Undefined,
     amount |-> amount, date |-> date]

\* bodies of POST /api/transactions
TxCreatePayloads ==
    {TxPayload(ty, Num(a), d) : ty \in {Txt("expense"), Txt("income")}, a \in 1..MaxAmount,
                                d \in TxDates}
      \cup {TxPayload(ty, Num(1), DateOnly(1, 0, 1)) : ty \in TxTypeValues}
      \cup {TxPayload(Txt("expense"), a, DateOnly(1, 0, 1)) : a \in AmountValues}
      \cup {TxPayload(Txt("expense"), Num(1), d) : d \in {BadDate, Undefined}}

\* bodies of PUT /api/transactions/:id
TxUpdatePayloads ==
    {TxUpdatePayload(ty, a, d) :
        ty \in TxTypeValues,
        a \in {Undefined, Num(0), Num(MaxAmount), Str(<<"0", "x", "2">>), Str(<<"a">>)},
        d \in {Undefined, DateOnly(1, 0, 1), BadDate}}

\* bodies of PUT /api/transactions/:id that edit the texts of a transaction,
\* alone or together with type
TxEditPayloads ==
    {[TxUpdatePayload(ty, Undefined, Undefined) EXCEPT !.category = cat, !.description = d] :
        ty \in {Undefined, Txt("income")},
        cat \in {Undefined, Txt(""), Txt("lazer")}, d \in {Undefined, Txt(""), Txt("ferias")}}

\* queries of GET /api/transactions
TxQueries ==
    {[type |-> ty, startDate |-> sd, endDate |-> ed] :
        ty \in TxTypeValues, sd \in {Undefined, DateOnly(1, 0, 1), BadDate},
        ed \in {Undefined, DateOnly(1, 0, 1)}}

TxCreateRequests == {Request(u, NoId, p) : u \in Users, p \in TxCreatePayloads}
TxUpdateRequests == WithIds(TxIds, TxUpdatePayloads)
TxIdRequests == WithIds(TxIds, {NoBody})
TxListRequests == {Request(u, NoId, q) : u \in Users, q \in TxQueries}
TxSummaryRequests == {Request(u, NoId, NoBody) : u \in Users}
TxChartRequests == {Request(u, NoId, NoBody) : u \in Users}

-----------------------------------------------------------------------------
(* Actions: one per route *)

GoalCreate(R) ==
    /\ nextGoalId <= MaxGoals
    /\ \E rq \in R : \E r \in {goalCreate(goals, nextGoalId, rq.u, rq.p)} :
             /\ goals' = r.goals
             /\ nextGoalId' = r.nextId
             /\ last' = r.resp
    /\ UNCHANGED <<txs, nextTxId, now, tz, users, sessions, calls>>

GoalUpdate(R) ==
    /\ \E rq \in R : \E r \in {goalUpdate(goals, rq.u, rq.id, rq.p)} :
             /\ goals' = r.goals
             /\ last' = Sent(r.resp, rq.p.status)
    /\ UNCHANGED <<nextGoalId, txs, nextTxId, now, tz, users, sessions, calls>>

GoalUpdateProgress(R) ==
    /\ \E rq \in R : \E r \in {goalUpdateProgress(goals, rq.u, rq.id, rq.p)} :
             /\ goals' = r.goals
             /\ last' = Sent(r.resp, rq.p.amount)
    /\ UNCHANGED <<nextGoalId, txs, nextTxId, now, tz, users, sessions, calls>>

GoalDelete(R) ==
    /\ \E rq \in R : \E r \in {goalDelete(goals, rq.u, rq.id)} :
             /\ goals' = r.goals
             /\ last' = r.resp
    /\ UNCHANGED <<nextGoalId, txs, nextTxId, now, tz, users, sessions, calls>>

GoalGet(R) ==
    /\ \E rq \in R : last' = goalGet(goals, rq.u, rq.id)
    /\ UNCHANGED <<goals, nextGoalId, txs, nextTxId, now, tz, users, sessions, calls>>

GoalList(R) ==
    /\ \E rq \in R : last' = goalList(goals, rq.u, rq.p.status)
    /\ UNCHANGED <<goals, nextGoalId, txs, nextTxId, now, tz, users, sessions, calls>>

GoalRecent(R) ==
    /\ \E rq \in R : last' = goalRecent(goals, rq.u)
    /\ UNCHANGED <<goals, nextGoalId, txs, nextTxId, now, tz, users, sessions, calls>>

TxCreate(R) ==
    /\ nextTxId <= MaxTxs
    /\ \E rq \in R : \E r \in {txCreate(txs, nextTxId, rq.u, rq.p)} :
             /\ txs' = r.txs
             /\ nextTxId' = r.nextId
             /\ last' = r.resp
    /\ UNCHANGED <<goals, nextGoalId, now, tz, users, sessions, calls>>

TxUpdate(R) ==
    /\ \E rq \in R : \E r \in {txUpdate(txs, rq.u, rq.id, rq.p)} :
             /\ txs' = r.txs
             /\ last' = r.resp
    /\ UNCHANGED <<goals, nextGoalId, nextTxId, now, tz, users, sessions, calls>>

TxDelete(R) ==
    /\ \E rq \in R : \E r \in {txDelete(txs, rq.u, rq.id)} :
             /\ txs' = r.txs
             /\ last' = r.resp
    /\ UNCHANGED <<goals, nextGoalId, nextTxId, now, tz, users, sessions, calls>>

TxGet(R) ==
    /\ \E rq \in R : last' = txGet(txs, rq.u, rq.id)
    /\ UNCHANGED <<goals, nextGoalId, txs, nextTxId, now, tz, users, sessions, calls>>

TxList(R) ==
    /\ \E rq \in R : last' = txList(txs, rq.u, rq.p)
    /\ UNCHANGED <<goals, nextGoalId, txs, nextTxId, now, tz, users, sessions, calls>>

TxSummary(R) ==
    /\ \E rq \in R : last' = txSummary(txs, rq.u)
    /\ UNCHANGED <<goals, nextGoalId, txs, nextTxId, now, tz, users, sessions, calls>>

TxChart(R) ==
    /\ \E rq \in R : last' = txChart(txs, rq.u)
    /\ UNCHANGED <<goals, nextGoalId, txs, nextTxId, now, tz, users, sessions, calls>>

\* time passes between requests: new Date() reads a later instant, at most
\* MaxTicks slots into the month the clock started in
Tick ==
    /\ (now % SlotsPerMonth) < MaxTicks
    /\ now' = now + 1
    /\ UNCHANGED <<goals, nextGoalId, txs, nextTxId, tz, last, users, sessions, calls>>

-----------------------------------------------------------------------------
(* The goal engine: the goal routes on an empty database, the clock at the  *)
(* start of year 1                                                          *)

NoRequest == Resp("none", 0, NoId, 0, "", NotSeen, Null)

InitGoal ==
    /\ goals = <<>>
    /\ nextGoalId = 1
    /\ txs = <<>>
    /\ nextTxId = 1
    /\ now = StartOfMonth(0)
    /\ tz = 0
    /\ last = NoRequest
    /\ users = Accounts
    /\ sessions = [c \in Users |-> [userId |-> c, userName |-> "nome"]]
    /\ calls = <<>>

NextGoal ==
    \/ GoalCreate(GoalCreateRequests)
    \/ GoalUpdate(GoalUpdateRequests)
    \/ GoalUpdateProgress(GoalProgressRequests)
    \/ GoalDelete(GoalIdRequests)
    \/ GoalGet(GoalIdRequests)
    \/ GoalList(GoalListRequests)
    \/ GoalRecent(GoalRecentRequests)

SpecGoal == InitGoal /\ [][NextGoal]_vars

-----------------------------------------------------------------------------
(* Several users at once: every route of both tables, requests of all the   *)
(* users interleaved, each route with a few bodies.                         *)

OwnGoalCreateRequests ==
    {Request(u, NoId, GoalCreatePayload(Txt("meta"), Num(1), Undefined, FutureDeadline)) :
        u \in Users}
OwnGoalUpdateRequests ==
    WithIds(GoalIds, {GoalUpdatePayload(Undefined, Undefined, Txt("cancelled"), Undefined)})
OwnGoalProgressRequests == WithIds(GoalIds, {[amount |-> a] : a \in {Num(0), Num(1)}})
OwnGoalListRequests == {Request(u, NoId, [status |-> Undefined]) : u \in Users}
OwnTxCreateRequests ==
    {Request(u, NoId, TxPayload(Txt("expense"), Num(1), DateOnly(1, 0, 1))) : u \in Users}
OwnTxUpdateRequests ==
    WithIds(TxIds, {TxUpdatePayload(Undefined, Num(1), Undefined)})
OwnTxListRequests ==
    {Request(u, NoId, [type |-> Undefined, startDate |-> Undefined, endDate |-> Undefined]) :
        u \in Users}

InitOwn == InitGoal

NextOwn ==
    \/ GoalCreate(OwnGoalCreateRequests)
    \/ GoalUpdate(OwnGoalUpdateRequests)
    \/ GoalUpdateProgress(OwnGoalProgressRequests)
    \/ GoalDelete(GoalIdRequests)
    \/ GoalGet(GoalIdRequests)
    \/ GoalList(OwnGoalListRequests)
    \/ GoalRecent(GoalRecentRequests)
    \/ TxCreate(OwnTxCreateRequests)
    \/ TxUpdate(OwnTxUpdateRequests)
    \/ TxDelete(TxIdRequests)
    \/ TxGet(TxIdRequests)
    \/ TxList(OwnTxListRequests)
    \/ TxSummary(TxSummaryRequests)
    \/ TxChart(TxChartRequests)

SpecOwn == InitOwn /\ [][NextOwn]_vars

-----------------------------------------------------------------------------
(* The monthly chart: the clock starts in any month of year 1 and in any    *)
(* time zone, transactions of several months are created, time passes.      *)

ChartTxCreateRequests ==
    {Request(u, NoId, p) :
        u \in Users,
        p \in {TxPayload(Txt("expense"), Num(1), DateOnly(0, 9, 1)),
               TxPayload(Txt("income"), Num(1), DateOnly(1, 0, 1)),
               TxPayload(Txt("expense"), Num(1), DateTimeLocal(1, 3, DaysPerMonth, 1)),
               TxPayload(Txt("income"), Num(1), DateOnly(2, 0, 1))}}

InitChart ==
    /\ goals = <<>>
    /\ nextGoalId = 1
    /\ txs = <<>>
    /\ nextTxId = 1
    /\ now \in {StartOfMonth(m) : m \in 0..11}
    /\ tz \in TzOffsets
    /\ last = NoRequest
    /\ users = Accounts
    /\ sessions = [c \in Users |-> [userId |-> c, userName |-> "nome"]]
    /\ calls = <<>>

NextChart ==
    \/ TxCreate(ChartTxCreateRequests)
    \/ TxChart(TxChartRequests)
    \/ Tick

SpecChart == InitChart /\ [][NextChart]_vars

-----------------------------------------------------------------------------
(* Deadlines: goals are created with deadlines around the current day, in   *)
(* any time zone and at several times of the day.                           *)

\* deadlines of the days around the starts of the clock, as the date-only
\* strings of a date input and as local date-times
DeadlineValues ==
    {DateOnly(0, 11, DaysPerMonth), DateOnly(1, 0, 1), DateOnly(1, 0, 2), DateOnly(1, 1, 1),
     DateTimeLocal(1, 0, 1, 0), DateTimeLocal(1, 0, 1, SlotsPerDay - 1)}

DeadlineCreateRequests ==
    {Request(u, NoId, GoalCreatePayload(Txt("meta"), Num(1), Undefined, d)) :
        u \in Users, d \in DeadlineValues}

InitDeadline ==
    /\ goals = <<>>
    /\ nextGoalId = 1
    /\ txs = <<>>
    /\ nextTxId = 1
    /\ now \in {StartOfMonth(0), StartOfMonth(1)}
    /\ tz \in TzOffsets
    /\ last = NoRequest
    /\ users = Accounts
    /\ sessions = [c \in Users |-> [userId |-> c, userName |-> "nome"]]
    /\ calls = <<>>

NextDeadline ==
    \/ GoalCreate(DeadlineCreateRequests)
    \/ Tick

SpecDeadline == InitDeadline /\ [][NextDeadline]_vars

-----------------------------------------------------------------------------
(* The transaction routes: transactions of both types and several amounts   *)
(* are created, updated and deleted by the users, and read back.            *)

LedgerCreateRequests ==
    {Request(u, NoId, TxPayload(ty, Num(a), DateOnly(1, 0, 1))) :
        u \in Users, ty \in {Txt("expense"), Txt("income")}, a \in 1..MaxAmount}
      \cup {Request(u, NoId, TxPayload(Txt("expense"), Num(0), DateOnly(1, 0, 1))) : u \in Users}

LedgerUpdateRequests ==
    WithIds(TxIds, {TxUpdatePayload(Txt("income"), Undefined, Undefined),
                    TxUpdatePayload(Undefined, Num(MaxAmount), Undefined),
                    TxUpdatePayload(Undefined, Num(0), Undefined),
                    TxUpdatePayload(Txt("transfer"), Num(1), Undefined)})

InitLedger == InitGoal

NextLedger ==
    \/ TxCreate(LedgerCreateRequests)
    \/ TxUpdate(LedgerUpdateRequests)
    \/ TxDelete(TxIdRequests)
    \/ TxGet(TxIdRequests)
    \/ TxList(OwnTxListRequests)
    \/ TxSummary(TxSummaryRequests)

SpecLedger == InitLedger /\ [][NextLedger]_vars

-----------------------------------------------------------------------------
(* Lists of goals: up to MaxListed goals of several users, with two          *)
(* deadlines and every status, are created, cancelled, deleted and listed.   *)

GoalCreateListed(R) ==
    /\ nextGoalId <= MaxListed
    /\ \E rq \in R : \E r \in {goalCreate(goals, nextGoalId, rq.u, rq.p)} :
             /\ goals' = r.goals
             /\ nextGoalId' = r.nextId
             /\ last' = r.resp
    /\ UNCHANGED <<txs, nextTxId, now, tz, users, sessions, calls>>

NextList ==
    \/ GoalCreateListed(\* goals due today and tomorrow, below and at the target
                        {Request(u, NoId, GoalCreatePayload(Txt("meta"), Num(1), c, d)) :
                           u \in Users, c \in {Undefined, Num(1)},
                           d \in {DateOnly(1, 0, 1), DateOnly(1, 0, 2)}})
    \/ GoalUpdate(WithIds({Numeral(k) : k \in 1..MaxListed},
                          {GoalUpdatePayload(Undefined, Undefined, Txt("cancelled"), Undefined)}))
    \/ GoalDelete(WithIds({Numeral(k) : k \in 1..MaxListed}, {NoBody}))
    \/ GoalList(GoalListRequests)

SpecList == InitGoal /\ [][NextList]_vars

-----------------------------------------------------------------------------
(* Accounts and sessions: browsers register, log in and out and call the     *)
(* routes with and without a userId in their session; a registration is in   *)
(* flight between the answer of findUnique and prisma.user.create.           *)

\* the first await of POST /api/auth/register, from browser c with a body of P
RegisterBegin(c, P) ==
    /\ Cardinality(DOMAIN users) + Cardinality(DOMAIN calls) < NumUsers
    /\ Cardinality(DOMAIN calls) < MaxCalls
    /\ \E p \in P : \E r \in {registerFind(users, sessions[c], p)} :
         IF r = Null
         THEN /\ \E k \in (1..MaxCalls) \ DOMAIN calls :
                   /\ \A j \in 1..(k - 1) : j \in DOMAIN calls
                   /\ calls' = (k :> [op |-> "authRegister", c |-> c, p |-> p]) @@ calls
              /\ last' = last
         ELSE /\ last' = r
              /\ calls' = calls
    /\ UNCHANGED <<goals, nextGoalId, txs, nextTxId, now, tz, users, sessions>>

\* the rest of POST /api/auth/register for a registration in flight
RegisterFinish ==
    /\ \E k \in DOMAIN calls :
         /\ calls[k].op = "authRegister"
         /\ \E r \in {registerCreate(users, sessions, calls[k].c, calls[k].p)} :
              /\ users' = r.users
              /\ sessions' = r.sessions
              /\ last' = r.resp
         /\ calls' = [j \in (DOMAIN calls) \ {k} |-> calls[j]]
    /\ UNCHANGED <<goals, nextGoalId, txs, nextTxId, now, tz>>

Login(c, P) ==
    /\ \E p \in P : \E r \in {authLogin(users, sessions, c, p)} :
         /\ sessions' = r.sessions
         /\ last' = r.resp
    /\ UNCHANGED <<goals, nextGoalId, txs, nextTxId, now, tz, users, calls>>

Logout(c) ==
    /\ \E r \in {authLogout(sessions, c)} :
         /\ sessions' = r.sessions
         /\ last' = r.resp
    /\ UNCHANGED <<goals, nextGoalId, txs, nextTxId, now, tz, users, calls>>

AuthMe(c) ==
    /\ last' = authMe(users, sessions[c])
    /\ UNCHANGED <<goals, nextGoalId, txs, nextTxId, now, tz, users, sessions, calls>>

AuthCheck(c) ==
    /\ last' = authCheck(sessions[c])
    /\ UNCHANGED <<goals, nextGoalId, txs, nextTxId, now, tz, users, sessions, calls>>

\* a route behind isAuthenticated, called from browser c: the route's handler
\* A runs when the session has a userId, and the answer is 401 otherwise
Authenticated(c, op, A) ==
    IF isAuthenticated(sessions[c])
    THEN A
    ELSE /\ last' = Resp(op, 0, NoId, 401, "Nao autenticado", NotSeen, Null)
         /\ UNCHANGED <<goals, nextGoalId, txs, nextTxId, now, tz, users, sessions, calls>>

InitAuth ==
    /\ goals = <<>>
    /\ nextGoalId = 1
    /\ txs = <<>>
    /\ nextTxId = 1
    /\ now = StartOfMonth(0)
    /\ tz = 0
    /\ last = NoRequest
    /\ users = <<>>
    /\ sessions = [c \in Users |-> [userId |-> 0, userName |-> ""]]
    /\ calls = <<>>

NextAuth ==
    \/ \E c \in Users :
         RegisterBegin(c, {[email |-> e, name |-> Txt("nome"), password |-> w,
                            profilePhoto |-> f] :
                              e \in {Undefined, Str(Accounts[1].email)},
                              w \in {Txt("segredo"), Txt("curta")},
                              f \in {Undefined, [t |-> "photo", image |-> FALSE, big |-> FALSE],
                                     [t |-> "photo", image |-> TRUE, big |-> TRUE],
                                     [t |-> "photo", image |-> TRUE, big |-> FALSE]}}
                        \cup {[email |-> Str(Accounts[NumUsers].email), name |-> Txt("nome"),
                               password |-> Txt("segredo"), profilePhoto |-> Undefined]})
    \/ RegisterFinish
    \/ \E c \in Users :
         Login(c, {[email |-> e, password |-> w] :
                     e \in {Undefined, Str(Accounts[1].email), Str(Accounts[NumUsers].email)},
                     w \in {Txt("segredo"), Txt("curta")}})
    \/ \E c \in Users : Logout(c)
    \/ \E c \in Users : AuthMe(c)
    \/ \E c \in Users : AuthCheck(c)
    \/ \E c \in Users :
         Authenticated(c, "goalCreate",
             GoalCreate({Request(sessions[c].userId, NoId,
                                 GoalCreatePayload(Txt("meta"), Num(1), Undefined, FutureDeadline))}))
    \/ \E c \in Users :
         Authenticated(c, "goalList",
             GoalList({Request(sessions[c].userId, NoId, [status |-> Undefined])}))
    \/ \E c \in Users :
         Authenticated(c, "goalDelete",
             GoalDelete({Request(sessions[c].userId, id, NoBody) : id \in GoalIds}))
    \/ \E c \in Users :
         Authenticated(c, "txCreate",
             TxCreate({Request(sessions[c].userId, NoId,
                               TxPayload(Txt("income"), Num(1), DateOnly(1, 0, 1)))}))
    \/ \E c \in Users :
         Authenticated(c, "txSummary",
             TxSummary({Request(sessions[c].userId, NoId, NoBody)}))

SpecAuth == InitAuth /\ [][NextAuth]_vars

-----------------------------------------------------------------------------
(* Goals past their deadline: goals due today and tomorrow are created, time *)
(* passes, and the goals are cancelled, renamed, moved and given progress.   *)

NextExpiry ==
    \/ GoalCreate({Request(u, NoId, GoalCreatePayload(Txt("meta"), Num(1), Undefined, d)) :
                     u \in Users, d \in {DateOnly(1, 0, 1), DateOnly(1, 0, 2)}})
    \/ GoalUpdate(WithIds(GoalIds,
           {GoalUpdatePayload(Undefined, Undefined, s, d) :
                s \in {Undefined, Txt("cancelled")},
                d \in {Undefined, DateOnly(1, 0, 1), DateOnly(1, 0, 2)}}))
    \/ GoalUpdateProgress(WithIds(GoalIds, {[amount |-> Num(1)]}))
    \/ Tick

SpecExpiry == InitDeadline /\ [][NextExpiry]_vars

-----------------------------------------------------------------------------
(* The texts of a goal: goals are created with and without a category and a  *)
(* description, and updated with bodies that set, clear or leave out each.   *)

\* bodies of PUT /api/goals/:id over category and description: absent, null,
\* the empty string, a text
GoalTextPayloads ==
    {[GoalUpdatePayload(Undefined, Undefined, Undefined, Undefined)
        EXCEPT !.name = n, !.category = cat, !.description = d] :
        n \in {Undefined, Txt("novo")},
        cat \in {Undefined, Null, Txt(""), Txt("lazer")},
        d \in {Undefined, Null, Txt(""), Txt("ferias")}}

NextTexts ==
    \/ GoalCreate({Request(u, NoId, p) :
           u \in Users,
           p \in {GoalCreatePayload(Txt("meta"), Num(1), Undefined, FutureDeadline),
                  [GoalCreatePayload(Txt("meta"), Num(1), Undefined, FutureDeadline)
                     EXCEPT !.category = Txt("casa"), !.description = Txt("obra")]}})
    \/ GoalUpdate(WithIds(GoalIds, GoalTextPayloads))
    \/ GoalGet(GoalIdRequests)

SpecTexts == InitGoal /\ [][NextTexts]_vars

-----------------------------------------------------------------------------
(* Races: a goal and transactions are created, and up to MaxCalls requests   *)
(* that update or delete them are handled together, the reads and the writes *)
(* of the handlers interleaved in every order.  The calls stay in calls      *)
(* after they are answered, with their responses.                            *)

\* a handler starts and runs up to the answer of findUnique: it answers at
\* once (400, 404, 500) or goes on to its write with the row it has read
CallRead(R) ==
    /\ Cardinality(DOMAIN calls) < MaxCalls
    /\ \E rq \in R :
         \E r \in {handle(rq.op, IF rq.op \in {"txUpdate", "txDelete"} THEN txs ELSE goals,
                          rq.u, rq.id, rq.p)} :
           LET k == Cardinality(DOMAIN calls) + 1
               call == [op |-> rq.op, u |-> rq.u, id |-> rq.id, p |-> rq.p, order |-> 0]
           IN  IF r.resp.code # 200
               THEN /\ calls' = (k :> (call @@ [pc |-> "done", seen |-> Null, resp |-> r.resp]))
                                  @@ calls
                    /\ last' = r.resp
               ELSE /\ calls' = (k :> (call @@ [pc |-> "write",
                                                seen |-> IF rq.op \in {"txUpdate", "txDelete"}
                                                         THEN txs[validateIntegerId(rq.id).v]
                                                         ELSE goals[validateIntegerId(rq.id).v],
                                                resp |-> NoRequest]))
                                  @@ calls
                    /\ last' = last
    /\ UNCHANGED <<goals, nextGoalId, txs, nextTxId, now, tz, users, sessions>>

\* the write of a handler in flight, and its answer
CallWrite ==
    /\ \E k \in DOMAIN calls :
         /\ calls[k].pc = "write"
         /\ \E r \in {callWrite(IF calls[k].op \in {"txUpdate", "txDelete"} THEN txs ELSE goals,
                                calls[k])} :
              /\ IF calls[k].op \in {"txUpdate", "txDelete"}
                 THEN txs' = r.rows /\ goals' = goals
                 ELSE goals' = r.rows /\ txs' = txs
              /\ last' = r.resp
              /\ calls' = [calls EXCEPT ![k].pc = "done", ![k].resp = r.resp,
                             ![k].order = 1 + Cardinality({j \in DOMAIN calls : calls[j].order > 0})]
    /\ UNCHANGED <<nextGoalId, nextTxId, now, tz, users, sessions>>

NextRace ==
    \/ GoalCreate({Request(u, NoId, GoalCreatePayload(Txt("meta"), Num(MaxAmount), Undefined,
                                                     FutureDeadline)) : u \in Users})
    \/ TxCreate({Request(1, NoId, TxPayload(Txt("income"), Num(1), DateOnly(1, 0, 1)))})
    \/ CallRead({[op |-> "goalUpdateProgress", u |-> u, id |-> id, p |-> [amount |-> Num(a)]] :
                   u \in Users, id \in GoalIds, a \in 1..MaxAmount}
                \cup {[op |-> "goalUpdate", u |-> u, id |-> id, p |-> p] :
                        u \in Users, id \in GoalIds,
                        p \in {GoalUpdatePayload(Undefined, Undefined, Txt("cancelled"), Undefined),
                               GoalUpdatePayload(Undefined, Num(1), Undefined, Undefined)}}
                \cup {[op |-> "goalDelete", u |-> u, id |-> id, p |-> NoBody] :
                        u \in Users, id \in GoalIds}
                \cup {[op |-> "txUpdate", u |-> 1, id |-> Numeral(1),
                       p |-> TxUpdatePayload(Undefined, Num(MaxAmount), Undefined)],
                      [op |-> "txDelete", u |-> 1, id |-> Numeral(1), p |-> NoBody]})
    \/ CallWrite

SpecRace == InitGoal /\ [][NextRace]_vars

-----------------------------------------------------------------------------
(* Properties of the goal engine (SpecGoal) *)

\* the row that the :id segment of a request names, before and after
RowId(rq) == validateIntegerId(rq.id).v
OwnGoal(rq) ==
    validateIntegerId(rq.id) # Null /\ RowId(rq) \in DOMAIN goals
      /\ goals[RowId(rq)].userId = rq.u
LastGoal == goals[validateIntegerId(last.id).v]

\* C1: a goal update without a status leaves the goal completed when the
\* stored currentAmount reaches the stored targetAmount, and active when the
\* goal was completed and currentAmount is now below targetAmount; so raising
\* currentAmount to the target and then lowering it, both without a status,
\* leaves the goal completed and then active
C1_AutoStatus ==
    \A rq \in GoalUpdateRequests :
      ~Truthy(rq.p.status) =>
        \A r \in {goalUpdate(goals, rq.u, rq.id, rq.p)} :
          r.resp.code = 200 =>
            LET before == goals[RowId(rq)]
                after == r.goals[RowId(rq)]
            IN  /\ after.currentAmount >= after.targetAmount => after.status = "completed"
                /\ (before.status = "completed" /\ after.currentAmount < after.targetAmount)
                     => after.status = "active"
                /\ (before.currentAmount < after.currentAmount
                      /\ after.currentAmount >= after.targetAmount)
                     => \A c \in CurrentValues :
                          \A r2 \in {goalUpdate(r.goals, rq.u, rq.id,
                                       GoalUpdatePayload(Undefined, c, Undefined, Undefined))} :
                            (r2.resp.code = 200
                               /\ r2.goals[RowId(rq)].currentAmount < after.targetAmount)
                              => r2.goals[RowId(rq)].status = "active"

\* C1 witness: a completed goal was lowered below its target by an update
\* without a status and is active again
C1_Witness ==
    /\ last.op = "goalUpdate" /\ last.code = 200 /\ ~Truthy(last.sent)
    /\ last.seen.status = "completed"
    /\ LastGoal.currentAmount < LastGoal.targetAmount
    /\ LastGoal.status = "active"

\* the integer nearest to num / den (den > 0), halves upwards
NearestInt(num, den) ==
    LET bound == (IF num < 0 THEN 0 - num ELSE num) + 1
    IN  CHOOSE n \in (0 - bound)..bound :
          (2 * n - 1) * den <= 2 * num /\ 2 * num < (2 * n + 1) * den

\* clamp(round(current / target * 100), 0, 100), and 0 when target = 0
ClampedPercent(c, t) ==
    IF t = 0 THEN 0
    ELSE LET n == IF t > 0 THEN NearestInt(100 * c, t) ELSE NearestInt(0 - 100 * c, 0 - t)
         IN  IF n < 0 THEN 0 ELSE IF n > 100 THEN 100 ELSE n

ProgressAsSpecified(body) ==
    /\ body.id \in DOMAIN goals
    /\ body.currentAmount = goals[body.id].currentAmount
    /\ body.targetAmount = goals[body.id].targetAmount
    /\ body.progress = ClampedPercent(body.currentAmount, body.targetAmount)
    /\ body.progress \in 0..100

\* C2: the progress attached to a goal by get, list, recent, update and
\* updateProgress is clamp(round(currentAmount / targetAmount * 100), 0, 100)
\* of the stored amounts, 0 when targetAmount = 0, and so within 0..100
C2_Progress ==
    /\ (last.op \in {"goalGet", "goalUpdate", "goalUpdateProgress"} /\ last.code = 200)
         => ProgressAsSpecified(last.body)
    /\ (last.op \in {"goalList", "goalRecent"} /\ last.code = 200)
         => \A i \in 1..Len(last.body) : ProgressAsSpecified(last.body[i])

\* C2 witness: updateProgress answered with a goal whose currentAmount
\* exceeds its targetAmount, with progress 100
C2_Witness ==
    /\ last.op = "goalUpdateProgress" /\ last.code = 200
    /\ last.body.targetAmount > 0
    /\ last.body.currentAmount > last.body.targetAmount
    /\ last.body.progress = 100

\* the amount a JSON number or a decimal numeral denotes
IsDecimal(v) == v.t = "number" \/ (v.t = "string" /\ AllDigits(v.s))
DecimalValue(v) == IF v.t = "number" THEN v.v ELSE DigitsValue(v.s, 10, 0)

C6_MessageOnTransition ==
    (last.op = "goalUpdateProgress" /\ last.code = 200) =>
        /\ (last.seen.status # "completed" /\ LastGoal.status = "completed")
             => last.msg = "Parabens! Meta concluida!"
        /\ LastGoal.currentAmount < LastGoal.targetAmount
             => last.msg = "Progresso atualizado com sucesso!"

\* an amount that is missing, not a number, negative or zero
ZeroMissingOrInvalid(v) == v = Undefined \/ isNaN(v) \/ ToNumber(v).v <= 0

\* C7: updateProgress with amount zero, missing, negative or not a number is
\* answered 400 and leaves the goal as it was
C7_ZeroRejected ==
    \A rq \in GoalProgressRequests :
      (OwnGoal(rq) /\ ZeroMissingOrInvalid(rq.p.amount)) =>
        \A r \in {goalUpdateProgress(goals, rq.u, rq.id, rq.p)} :
          r.resp.code = 400 /\ r.goals = goals

C9_Irreversible ==
    \A rq \in GoalProgressRequests :
      (OwnGoal(rq) /\ goals[RowId(rq)].status = "completed") =>
        \A r \in {goalUpdateProgress(goals, rq.u, rq.id, rq.p)} :
          RowId(rq) \in DOMAIN r.goals /\ r.goals[RowId(rq)].status = "completed"

\* C9 witness: updateProgress has lowered a completed goal below its target
\* and the goal is still completed
C9_Witness ==
    /\ last.op = "goalUpdateProgress" /\ last.code = 200
    /\ last.seen.status = "completed"
    /\ LastGoal.currentAmount < LastGoal.targetAmount
    /\ LastGoal.status = "completed"

-----------------------------------------------------------------------------
(* Properties of ownership (SpecOwn) *)

\* the ids of the rows of T that belong to a user other than u
OtherOwned(T, u) == {k \in DOMAIN T : T[k].userId # u}

\* T without the row k; T restricted to the rows of u, and to the others'
Absent(T, k) == [j \in (DOMAIN T) \ {k} |-> T[j]]
OwnRows(T, u) == [j \in {k \in DOMAIN T : T[k].userId = u} |-> T[j]]
OtherRows(T, u) == [j \in OtherOwned(T, u) |-> T[j]]

\* the answer to a request whose id names another user's row is the answer
\* to the same request when the row is absent, and has one of the given
\* HTTP statuses
SameAsAbsent(here, absent, codes) ==
    Http(here) = Http(absent) /\ here.code \in codes

\* the validation error of updateProgress
AmountError(resp) ==
    resp.code = 400 /\ resp.msg = "Valor deve ser um numero nao-negativo"

\* C3 as stated: get, update and delete of a transaction or a goal, and
\* updateProgress, answer a request whose id names a row of another user
\* with status 404 and the body they answer when no row has that id, for
\* every payload
C3_Always404 ==
    \A u \in Users :
      /\ \A k \in OtherOwned(goals, u) :
           LET id == Numeral(k)
               G0 == Absent(goals, k)
           IN  /\ SameAsAbsent(goalGet(goals, u, id), goalGet(G0, u, id), {404})
               /\ SameAsAbsent(goalDelete(goals, u, id).resp, goalDelete(G0, u, id).resp, {404})
               /\ \A p \in GoalUpdatePayloads :
                     SameAsAbsent(goalUpdate(goals, u, id, p).resp,
                                  goalUpdate(G0, u, id, p).resp, {404})
               /\ \A p \in GoalProgressPayloads :
                     SameAsAbsent(goalUpdateProgress(goals, u, id, p).resp,
                                  goalUpdateProgress(G0, u, id, p).resp, {404})
      /\ \A k \in OtherOwned(txs, u) :
           LET id == Numeral(k)
               T0 == Absent(txs, k)
           IN  /\ SameAsAbsent(txGet(txs, u, id), txGet(T0, u, id), {404})
               /\ SameAsAbsent(txDelete(txs, u, id).resp, txDelete(T0, u, id).resp, {404})
               /\ \A p \in TxUpdatePayloads :
                     SameAsAbsent(txUpdate(txs, u, id, p).resp,
                                  txUpdate(T0, u, id, p).resp, {404})

\* C3: get, update and delete of a transaction or a goal, and updateProgress,
\* answer a request whose id names a row of another user exactly as they
\* answer it when no row has that id, for every payload, and change nothing;
\* the answer is 404, except that updateProgress answers an amount it
\* rejects with the validation error 400 in both cases
C3_Indistinguishable ==
    \A u \in Users :
      /\ \A k \in OtherOwned(goals, u) :
           LET id == Numeral(k)
               G0 == Absent(goals, k)
           IN  /\ SameAsAbsent(goalGet(goals, u, id), goalGet(G0, u, id), {404})
               /\ SameAsAbsent(goalDelete(goals, u, id).resp, goalDelete(G0, u, id).resp, {404})
               /\ goalDelete(goals, u, id).goals = goals
               /\ \A p \in GoalUpdatePayloads :
                     /\ SameAsAbsent(goalUpdate(goals, u, id, p).resp,
                                     goalUpdate(G0, u, id, p).resp, {404})
                     /\ goalUpdate(goals, u, id, p).goals = goals
               /\ \A p \in GoalProgressPayloads :
                     \A r \in {goalUpdateProgress(goals, u, id, p)} :
                       /\ SameAsAbsent(r.resp, goalUpdateProgress(G0, u, id, p).resp, {400, 404})
                       /\ r.resp.code = 400 => AmountError(r.resp)
                       /\ (IsNum(p.amount) /\ p.amount.v > 0) => r.resp.code = 404
                       /\ r.goals = goals
      /\ \A k \in OtherOwned(txs, u) :
           LET id == Numeral(k)
               T0 == Absent(txs, k)
           IN  /\ SameAsAbsent(txGet(txs, u, id), txGet(T0, u, id), {404})
               /\ SameAsAbsent(txDelete(txs, u, id).resp, txDelete(T0, u, id).resp, {404})
               /\ txDelete(txs, u, id).txs = txs
               /\ \A p \in TxUpdatePayloads :
                     /\ SameAsAbsent(txUpdate(txs, u, id, p).resp,
                                     txUpdate(T0, u, id, p).resp, {404})
                     /\ txUpdate(txs, u, id, p).txs = txs

\* C3 witness: updateProgress with an accepted amount, sent for the goal of
\* another user, was answered 404 and the goal is still there
C3_Witness ==
    /\ last.op = "goalUpdateProgress" /\ last.code = 404
    /\ last.seen.found /\ last.seen.userId # last.user
    /\ LastGoal.userId # last.user

\* a write by u turned table T into T2: the rows of the others are as they
\* were, no row changed its owner, and a new row has the id nid and belongs
\* to u
WriteKeepsOthers(T, T2, u, nid) ==
    /\ OtherRows(T2, u) = OtherRows(T, u)
    /\ \A k \in (DOMAIN T2) \cap (DOMAIN T) : T2[k].userId = T[k].userId
    /\ \A k \in (DOMAIN T2) \ (DOMAIN T) : k = nid /\ T2[k].id = k /\ T2[k].userId = u

\* a create that was handed the id nid hands out a larger id next
FreshId(T, r, nid) ==
    /\ r.nextId >= nid
    /\ (DOMAIN r[T]) \ {k \in DOMAIN r[T] : k < nid} # {} => r.nextId > nid

\* C4: whatever the users have requested so far, no request of a user
\* changes or deletes a row of another user; what get, list, recent, summary
\* and chart answer to a user is what they answer when the rows of the other
\* users are not in the database; every stored id is below the next id to be
\* handed out, a new row takes exactly that id, and no row changes its owner
C4_Isolation ==
    /\ \A k \in DOMAIN goals : goals[k].id = k /\ k < nextGoalId /\ goals[k].userId \in Users
    /\ \A k \in DOMAIN txs : txs[k].id = k /\ k < nextTxId /\ txs[k].userId \in Users
    /\ \A rq \in GoalCreateRequests :
         \A r \in {goalCreate(goals, nextGoalId, rq.u, rq.p)} :
           WriteKeepsOthers(goals, r.goals, rq.u, nextGoalId) /\ FreshId("goals", r, nextGoalId)
    /\ \A rq \in GoalUpdateRequests :
         \A r \in {goalUpdate(goals, rq.u, rq.id, rq.p)} :
           WriteKeepsOthers(goals, r.goals, rq.u, 0)
    /\ \A rq \in GoalProgressRequests :
         \A r \in {goalUpdateProgress(goals, rq.u, rq.id, rq.p)} :
           WriteKeepsOthers(goals, r.goals, rq.u, 0)
    /\ \A rq \in GoalIdRequests :
         /\ \A r \in {goalDelete(goals, rq.u, rq.id)} :
              WriteKeepsOthers(goals, r.goals, rq.u, 0)
         /\ Http(goalGet(goals, rq.u, rq.id)) = Http(goalGet(OwnRows(goals, rq.u), rq.u, rq.id))
    /\ \A rq \in GoalListRequests :
         Http(goalList(goals, rq.u, rq.p.status))
           = Http(goalList(OwnRows(goals, rq.u), rq.u, rq.p.status))
    /\ \A rq \in GoalRecentRequests :
         Http(goalRecent(goals, rq.u)) = Http(goalRecent(OwnRows(goals, rq.u), rq.u))
    /\ \A rq \in TxCreateRequests :
         \A r \in {txCreate(txs, nextTxId, rq.u, rq.p)} :
           WriteKeepsOthers(txs, r.txs, rq.u, nextTxId) /\ FreshId("txs", r, nextTxId)
    /\ \A rq \in TxUpdateRequests :
         \A r \in {txUpdate(txs, rq.u, rq.id, rq.p)} :
           WriteKeepsOthers(txs, r.txs, rq.u, 0)
    /\ \A rq \in TxIdRequests :
         /\ \A r \in {txDelete(txs, rq.u, rq.id)} :
              WriteKeepsOthers(txs, r.txs, rq.u, 0)
         /\ Http(txGet(txs, rq.u, rq.id)) = Http(txGet(OwnRows(txs, rq.u), rq.u, rq.id))
    /\ \A rq \in TxListRequests :
         Http(txList(txs, rq.u, rq.p)) = Http(txList(OwnRows(txs, rq.u), rq.u, rq.p))
    /\ \A rq \in TxSummaryRequests :
         Http(txSummary(txs, rq.u)) = Http(txSummary(OwnRows(txs, rq.u), rq.u))
    /\ \A rq \in TxChartRequests :
         Http(txChart(txs, rq.u)) = Http(txChart(OwnRows(txs, rq.u), rq.u))

\* C4 witness: a user asked to delete the goal of another user while both
\* users own transactions; the goal is still there, with its owner
C4_Witness ==
    /\ last.op = "goalDelete" /\ last.code = 404
    /\ last.seen.found /\ last.seen.userId # last.user
    /\ LastGoal.userId = last.seen.userId
    /\ \A u \in Users : \E k \in DOMAIN txs : txs[k].userId = u

\* a non-empty string of decimal digits
IsDecimalToken(cs) ==
    Len(cs) > 0
      /\ \A i \in 1..Len(cs) : cs[i] \in {"0", "1", "2", "3", "4", "5", "6", "7", "8", "9"}

\* the answer to an id that is no integer: 400 with the invalid-id error,
\* given before any row was read
InvalidIdAnswer(resp) ==
    resp.code = 400 /\ resp.msg = "ID invalido" /\ resp.seen = NotSeen /\ resp.body = Null

\* C13: an identifier is accepted exactly when it is a non-empty string of
\* decimal digits ("7" is, "7a", "-7" and "" are not); get, update and delete
\* of a transaction or a goal, and updateProgress, answer an identifier that
\* is not accepted with 400 and the invalid-id error, whatever the body and
\* whatever is stored, without reading or writing a row
C13_InvalidId ==
    /\ \A id \in InvalidIds \cup GoalIds \cup TxIds \cup {<<"7">>, <<"0", "7">>} :
         validateIntegerId(id) # Null <=> IsDecimalToken(id)
    /\ validateIntegerId(<<"7">>) = Num(7)
    /\ \A id \in InvalidIds : ~IsDecimalToken(id)
    /\ \A u \in Users : \A id \in InvalidIds :
         /\ InvalidIdAnswer(goalGet(goals, u, id))
         /\ InvalidIdAnswer(txGet(txs, u, id))
         /\ \A r \in {goalDelete(goals, u, id)} : InvalidIdAnswer(r.resp) /\ r.goals = goals
         /\ \A r \in {txDelete(txs, u, id)} : InvalidIdAnswer(r.resp) /\ r.txs = txs
         /\ \A p \in GoalUpdatePayloads :
              \A r \in {goalUpdate(goals, u, id, p)} : InvalidIdAnswer(r.resp) /\ r.goals = goals
         /\ \A p \in GoalProgressPayloads :
              \A r \in {goalUpdateProgress(goals, u, id, p)} :
                InvalidIdAnswer(r.resp) /\ r.goals = goals
         /\ \A p \in TxUpdatePayloads :
              \A r \in {txUpdate(txs, u, id, p)} : InvalidIdAnswer(r.resp) /\ r.txs = txs

\* C13 witness: an update of transaction "1a" was answered with the
\* invalid-id error while transaction 1 exists and belongs to the user
C13_Witness ==
    /\ last.op = "txUpdate" /\ last.id = BadId
    /\ InvalidIdAnswer(last)
    /\ 1 \in DOMAIN txs /\ txs[1].userId = last.user

\* a validation error or a not-found error
Refused(resp) == resp.code \in {400, 404}

\* C15: a create, update or updateProgress request on transactions or goals
\* that is answered 400 or 404 leaves both tables and their id counters
\* exactly as they were, also when only one of several supplied fields is
\* invalid
C15_RefusedChangesNothing ==
    /\ \A rq \in GoalCreateRequests :
         \A r \in {goalCreate(goals, nextGoalId, rq.u, rq.p)} :
           Refused(r.resp) => r.goals = goals /\ r.nextId = nextGoalId
    /\ \A rq \in GoalUpdateRequests :
         \A r \in {goalUpdate(goals, rq.u, rq.id, rq.p)} :
           Refused(r.resp) => r.goals = goals
    /\ \A rq \in GoalProgressRequests :
         \A r \in {goalUpdateProgress(goals, rq.u, rq.id, rq.p)} :
           Refused(r.resp) => r.goals = goals
    /\ \A rq \in TxCreateRequests :
         \A r \in {txCreate(txs, nextTxId, rq.u, rq.p)} :
           Refused(r.resp) => r.txs = txs /\ r.nextId = nextTxId
    /\ \A rq \in TxUpdateRequests :
         \A r \in {txUpdate(txs, rq.u, rq.id, rq.p)} :
           Refused(r.resp) => r.txs = txs

\* C15 witness: updateProgress with amount 0 on the user's own goal was
\* answered 400, and the goal has kept its amount
C15_Witness ==
    /\ last.op = "goalUpdateProgress" /\ last.code = 400
    /\ last.sent = Num(0)
    /\ validateIntegerId(last.id) # Null /\ validateIntegerId(last.id).v \in DOMAIN goals
    /\ LastGoal.userId = last.user
    /\ LastGoal.currentAmount > 0

\* the row that the :id segment of a transaction request names belongs to
\* the requesting user
OwnTx(rq) ==
    validateIntegerId(rq.id) # Null /\ RowId(rq) \in DOMAIN txs
      /\ txs[RowId(rq)].userId = rq.u

\* a number that is zero or negative
NotPositive(v) == IsNum(v) /\ v.v <= 0

\* C16: an update of the user's own goal that supplies a targetAmount that is
\* zero or negative, and an update of the user's own transaction that
\* supplies an amount that is zero or negative, is answered with the
\* validation error 400, as the create of the same record is
C16_UpdateValidatesAmount ==
    /\ \A rq \in GoalUpdateRequests :
         (OwnGoal(rq) /\ NotPositive(rq.p.targetAmount)) =>
           goalUpdate(goals, rq.u, rq.id, rq.p).resp.code = 400
    /\ \A rq \in TxUpdateRequests :
         (OwnTx(rq) /\ NotPositive(rq.p.amount)) =>
           txUpdate(txs, rq.u, rq.id, rq.p).resp.code = 400

\* the row after kept every column among fields that the body p leaves out,
\* and its id and owner
KeepsAbsent(before, after, p, fields) ==
    /\ \A f \in fields : p[f] = Undefined => after[f] = before[f]
    /\ after.id = before.id
    /\ after.userId = before.userId

\* C17: a successful update of a goal or a transaction leaves every column
\* among name, targetAmount, currentAmount, deadline, category, description
\* (goal) and type, category, description, amount, date (transaction) that
\* the body does not contain as it was stored, never changes the id or the
\* owner of the row, and changes no other row
C17_AbsentFieldsKept ==
    /\ \A rq \in GoalUpdateRequests \cup WithIds(GoalIds, GoalEditPayloads) :
         \A r \in {goalUpdate(goals, rq.u, rq.id, rq.p)} :
           r.resp.code = 200 =>
             /\ KeepsAbsent(goals[RowId(rq)], r.goals[RowId(rq)], rq.p,
                            {"name", "targetAmount", "currentAmount", "deadline",
                             "category", "description"})
             /\ DOMAIN r.goals = DOMAIN goals
             /\ \A k \in (DOMAIN goals) \ {RowId(rq)} : r.goals[k] = goals[k]
    /\ \A rq \in TxUpdateRequests \cup WithIds(TxIds, TxEditPayloads) :
         \A r \in {txUpdate(txs, rq.u, rq.id, rq.p)} :
           r.resp.code = 200 =>
             /\ KeepsAbsent(txs[RowId(rq)], r.txs[RowId(rq)], rq.p,
                            {"type", "category", "description", "amount", "date"})
             /\ DOMAIN r.txs = DOMAIN txs
             /\ \A k \in (DOMAIN txs) \ {RowId(rq)} : r.txs[k] = txs[k]

\* C17 witness: an update that supplied only the amount of the user's own
\* transaction succeeded, and the transaction has the type, category,
\* description and date it was created with
C17_Witness ==
    /\ last.op = "txUpdate" /\ last.code = 200
    /\ last.seen.found /\ last.seen.userId = last.user
    /\ validateIntegerId(last.id).v \in DOMAIN txs
    /\ \A r \in {txs[validateIntegerId(last.id).v]} :
         /\ r = last.body
         /\ r.userId = last.user
         /\ r.type = "expense" /\ r.category = "casa" /\ r.description = "conta"
         /\ r.date = NewDate(DateOnly(1, 0, 1)).v

-----------------------------------------------------------------------------
(* Properties of the monthly chart (SpecChart) *)

\* the months since year 0 of the local month the instant i lies in
MonthNumber(i) == (i + tz) \div SlotsPerMonth

\* the transactions of user u dated in the local month number n
TxsOfMonth(u, n) == {x \in rowsOf(txs) : x.userId = u /\ MonthNumber(x.date) = n}

\* C10: the chart has exactly 6 buckets; bucket k (k = 0..5) is the calendar
\* month 5-k months before the current one, so the buckets are consecutive
\* months in order, the last is the current month and the year falls by one
\* where the window crosses January; a bucket without transactions reports
\* income 0 and expenses 0
C10_SixBuckets ==
    \A u \in Users :
      LET body == txChart(txs, u).body
          current == MonthNumber(now)
      IN  /\ DOMAIN body = 1..6
          /\ \A k \in 0..5 :
               LET b == body[k + 1]
               IN  /\ b.month \in 0..11
                   /\ b.year * 12 + b.month = current - (5 - k)
                   /\ b.label = MonthLabels[b.month + 1]
                   /\ TxsOfMonth(u, current - (5 - k)) = {}
                        => b.income = 0 /\ b.expenses = 0
          /\ \A k \in 1..5 :
               IF body[k].month = 11
               THEN body[k + 1].month = 0 /\ body[k + 1].year = body[k].year + 1
               ELSE body[k + 1].month = body[k].month + 1 /\ body[k + 1].year = body[k].year

\* C10 witness: a chart was answered whose window crosses January: it starts
\* in the year before the current one, and it has a bucket with a
\* transaction and a bucket without
C10_Witness ==
    /\ last.op = "txChart" /\ last.code = 200
    /\ last.body[1].year + 1 = last.body[6].year
    /\ last.body[6].month = getMonth(now) /\ last.body[6].year = getFullYear(now)
    /\ \E k \in 1..6 : last.body[k].income + last.body[k].expenses > 0
    /\ \E k \in 1..6 : last.body[k].income = 0 /\ last.body[k].expenses = 0

\* the sum of the amounts of the transactions with the ids K
RECURSIVE SumOverIds(_)
SumOverIds(K) ==
    IF K = {} THEN 0
    ELSE LET k == CHOOSE x \in K : \A y \in K : x <= y
         IN  txs[k].amount + SumOverIds(K \ {k})

\* the ids of the transactions of user u, and those of one type
TxIdsOf(u) == {k \in DOMAIN txs : txs[k].userId = u}
TxIdsOfType(u, type) == {k \in TxIdsOf(u) : txs[k].type = type}

\* every transaction of user u is dated in one of the 6 local months that
\* end with the current one
AllInWindow(u) ==
    \A k \in TxIdsOf(u) :
      MonthNumber(txs[k].date) \in (MonthNumber(now) - 5)..MonthNumber(now)

\* C11: when all the transactions of a user are dated inside the 6-month
\* window, the incomes of the 6 chart buckets add up to the income of the
\* summary and the expenses to its expenses, and each bucket holds exactly
\* the transactions of its own month and year
C11_ChartMatchesSummary ==
    \A u \in Users :
      AllInWindow(u) =>
        LET body == txChart(txs, u).body
            summary == txSummary(txs, u).body
            first == MonthNumber(now) - 5
            ofMonth(type, n) == {k \in TxIdsOfType(u, type) : MonthNumber(txs[k].date) = n}
        IN  /\ body[1].income + body[2].income + body[3].income
                 + body[4].income + body[5].income + body[6].income = summary.income
            /\ body[1].expenses + body[2].expenses + body[3].expenses
                 + body[4].expenses + body[5].expenses + body[6].expenses = summary.expenses
            /\ \A k \in 0..5 :
                 /\ body[k + 1].income = SumOverIds(ofMonth("income", first + k))
                 /\ body[k + 1].expenses = SumOverIds(ofMonth("expense", first + k))

\* C11 witness: a chart was answered to a user whose transactions, an income
\* and an expense, all lie inside the window, in two different buckets
C11_Witness ==
    /\ last.op = "txChart" /\ last.code = 200
    /\ last.body[6].month = getMonth(now) /\ last.body[6].year = getFullYear(now)
    /\ AllInWindow(last.user)
    /\ \E j, k \in 1..6 : j # k /\ last.body[j].income > 0 /\ last.body[k].expenses > 0

\* the transactions that the query of the chart of user u selects: those of
\* u dated on or after the first day of the oldest bucket
Selected(u) ==
    {x \in rowsOf(txs) :
        x.userId = u /\ x.date >= LocalDate(getFullYear(now), getMonth(now) - 5, 1)}

\* C25: every transaction selected by the query of the chart falls into one
\* of the 6 buckets, so that no selected transaction is skipped
C25_SelectedInBucket ==
    \A u \in Users : \A x \in Selected(u) : findMonthIndex(chartMonths, x.date) # 0

\* C25, as the code has it: a selected transaction falls into one of the 6
\* buckets exactly when it is dated no later than the current month; a
\* transaction dated in a later month is selected and skipped
C25_SelectedUpToNowInBucket ==
    \A u \in Users : \A x \in Selected(u) :
        findMonthIndex(chartMonths, x.date) # 0 <=> MonthNumber(x.date) <= MonthNumber(now)

\* C25 witness: a chart was answered to a user who has a selected
\* transaction dated in the current month and one dated in a later month
C25_Witness ==
    /\ last.op = "txChart" /\ last.code = 200
    /\ last.body[6].month = getMonth(now) /\ last.body[6].year = getFullYear(now)
    /\ \E x, y \in Selected(last.user) :
         /\ MonthNumber(x.date) = MonthNumber(now)
         /\ MonthNumber(y.date) > MonthNumber(now)
         /\ last.body[6].income + last.body[6].expenses = x.amount

-----------------------------------------------------------------------------
(* Properties of the transaction routes (SpecLedger) *)

\* what the summary of user u is to be: the totals of the transactions that
\* u owns now
SummaryOf(u) ==
    LET income == SumOverIds(TxIdsOfType(u, "income"))
        expenses == SumOverIds(TxIdsOfType(u, "expense"))
    IN  [income |-> income, expenses |-> expenses, balance |-> income - expenses,
         transactionCount |-> Cardinality(TxIdsOf(u))]

\* C12: after any creates, updates and deletes of transactions by the users,
\* the summary of a user has income = the sum of the amounts of the income
\* transactions the user owns now, expenses = the sum of the user's expense
\* transactions, balance = income - expenses and transactionCount = the
\* number of the user's transactions, and nothing of the other users
C12_Summary ==
    /\ \A u \in Users :
         \A r \in {txSummary(txs, u)} : r.code = 200 /\ r.body = SummaryOf(u)
    /\ last.op = "txSummary" => last.code = 200 /\ last.body = SummaryOf(last.user)

\* C12 witness: after two creates and an update, a summary was answered to
\* a user with one transaction, an income of the largest amount, while the
\* other transaction belongs to another user
C12_Witness ==
    /\ last.op = "txSummary" /\ last.code = 200
    /\ nextTxId = 3
    /\ last.body.transactionCount = 1
    /\ last.body.income = MaxAmount /\ last.body.balance = MaxAmount
    /\ \E k \in DOMAIN txs : txs[k].userId # last.user /\ txs[k].amount > 0

-----------------------------------------------------------------------------
(* Properties of deadlines (SpecDeadline) *)

\* the number of the local calendar day the instant i lies in, and the
\* date-only string of day number n
LocalDayNumber(i) == (i + tz) \div SlotsPerDay
DateStringOfDay(n) ==
    DateOnly(n \div (12 * DaysPerMonth), (n \div DaysPerMonth) % 12, (n % DaysPerMonth) + 1)

\* a create request that is valid but for its deadline, the day number n
GoalDueOn(n) == GoalCreatePayload(Txt("meta"), Num(1), Undefined, DateStringOfDay(n))

\* C14: at every time of the day, creating a goal whose deadline is the day
\* before the current date is answered with the validation error and stores
\* nothing, and creating a goal whose deadline is the current date succeeds
C14_DeadlineByDate ==
    \A u \in Users :
      /\ \A r \in {goalCreate(goals, nextGoalId, u, GoalDueOn(LocalDayNumber(now) - 1))} :
           r.resp.code = 400 /\ r.goals = goals
      /\ \A r \in {goalCreate(goals, nextGoalId, u, GoalDueOn(LocalDayNumber(now)))} :
           r.resp.code = 201 /\ nextGoalId \in DOMAIN r.goals

-----------------------------------------------------------------------------
(* Status and creation of goals (SpecGoal) *)

\* the body p of a goal update supplies no amount and no status
NoAmountNoStatus(p) ==
    p.targetAmount = Undefined /\ p.currentAmount = Undefined /\ p.status = Undefined

\* the stored status of goal g disagrees with its amounts
Disagrees(g) ==
    \/ g.status = "active" /\ g.currentAmount >= g.targetAmount
    \/ g.status = "completed" /\ g.currentAmount < g.targetAmount
    \/ g.status = "cancelled" /\ g.currentAmount >= g.targetAmount

\* C18: a successful goal update whose body supplies none of targetAmount,
\* currentAmount and status leaves the stored status of the goal unchanged,
\* whatever the stored status and amounts are
C18_StatusKeptWithoutAmounts ==
    \A rq \in GoalUpdateRequests \cup WithIds(GoalIds, GoalEditPayloads) :
        NoAmountNoStatus(rq.p) =>
            \A r \in {goalUpdate(goals, rq.u, rq.id, rq.p)} :
                r.resp.code = 200 => r.goals[RowId(rq)].status = goals[RowId(rq)].status

\* the same update keeps the status of every goal whose status agrees with
\* its amounts, and of every cancelled goal below its target
C18_StatusKeptWhenAgreeing ==
    \A rq \in GoalUpdateRequests \cup WithIds(GoalIds, GoalEditPayloads) :
        NoAmountNoStatus(rq.p) =>
            \A r \in {goalUpdate(goals, rq.u, rq.id, rq.p)} :
                (r.resp.code = 200 /\ ~Disagrees(goals[RowId(rq)]))
                    => r.goals[RowId(rq)].status = goals[RowId(rq)].status

\* the body leaves v out
Missing(v) == v = Undefined \/ v = Null

\* v is a number below zero
Negative(v) == IsNum(v) /\ v.v < 0

\* C19: a successful goal create stores currentAmount 0 when the body has
\* none, stores status completed when the stored currentAmount >= the stored
\* targetAmount and active otherwise, never cancelled; a create whose body
\* lacks name, targetAmount or deadline, or has targetAmount <= 0 or
\* currentAmount < 0, is answered 400 and stores nothing
C19_CreateDefaultsAndValidation ==
    \A u \in Users : \A p \in GoalCreatePayloadsAll :
        \A r \in {goalCreate(goals, nextGoalId, u, p)} :
            /\ r.resp.code = 201 =>
                 /\ DOMAIN r.goals = (DOMAIN goals) \cup {nextGoalId}
                 /\ \A g \in {r.goals[nextGoalId]} :
                      /\ Missing(p.currentAmount) => g.currentAmount = 0
                      /\ g.currentAmount >= g.targetAmount => g.status = "completed"
                      /\ g.currentAmount < g.targetAmount => g.status = "active"
                      /\ g.status # "cancelled"
            /\ (\/ Missing(p.name) \/ Missing(p.targetAmount) \/ Missing(p.deadline)
                \/ NotPositive(p.targetAmount) \/ p.targetAmount = Str(<<"0">>)
                \/ Negative(p.currentAmount))
                  => /\ r.resp.code = 400
                     /\ r.goals = goals
                     /\ r.nextId = nextGoalId

\* C19 witness: a create stored a goal with currentAmount 0 below its target
\* as active, and another request of the same user for a goal with
\* targetAmount 0 is refused
C19_Witness ==
    /\ last.op = "goalCreate" /\ last.code = 201
    /\ last.body.id \in DOMAIN goals
    /\ goals[last.body.id] = last.body
    /\ last.body.currentAmount = 0 /\ last.body.targetAmount > 0
    /\ last.body.status = "active"
    /\ goalCreate(goals, nextGoalId, last.user,
                  GoalCreatePayload(Txt("meta"), Num(0), Undefined, FutureDeadline)).resp.code = 400

\* C20: the goal in the answer of a successful create carries its progress,
\* equal to the progress formula applied to the stored amounts
C20_CreateReturnsProgress ==
    (last.op = "goalCreate" /\ last.code = 201)
        => /\ "progress" \in DOMAIN last.body
           /\ last.body.progress = progress(goals[last.body.id])

\* the goal in the answer of a successful create is the stored row, which
\* has no progress column
C20_CreateReturnsStoredRow ==
    (last.op = "goalCreate" /\ last.code = 201)
        => /\ last.body = goals[last.body.id]
           /\ "progress" \notin DOMAIN last.body


\* C24: every stored transaction has amount > 0 and type expense or income,
\* and every stored goal has targetAmount > 0, currentAmount >= 0 and status
\* active, completed or cancelled
C24_StoredRowsValid ==
    /\ \A k \in DOMAIN txs : txs[k].amount > 0 /\ txs[k].type \in {"expense", "income"}
    /\ \A k \in DOMAIN goals :
         /\ goals[k].targetAmount > 0
         /\ goals[k].currentAmount >= 0
         /\ goals[k].status \in GoalStatuses

\* the columns that no request brings out of range: the type of a
\* transaction, the currentAmount and the status of a goal; no amount is
\* stored below zero
C24_StoredRowsInRange ==
    /\ \A k \in DOMAIN txs : txs[k].amount >= 0 /\ txs[k].type \in {"expense", "income"}
    /\ \A k \in DOMAIN goals :
         /\ goals[k].targetAmount >= 0
         /\ goals[k].currentAmount >= 0
         /\ goals[k].status \in GoalStatuses

-----------------------------------------------------------------------------
(* Properties of the lists of goals (SpecList) *)

\* the stored goals that a list for user u with the filter status must hold
Listed(u, status) ==
    {g \in rowsOf(goals) :
        /\ g.userId = u
        /\ status \in {Txt(s) : s \in GoalStatuses} => g.status = status.x}

\* row is the stored goal g, with or without further columns
ShowsGoal(row, g) == \A k \in DOMAIN g : k \in DOMAIN row /\ row[k] = g[k]

\* C21: the list of goals of a user holds exactly the goals the user owns,
\* only those with the status of the filter when the filter is active,
\* completed or cancelled; any other filter is answered 200 with the
\* unfiltered list; the list is ordered by deadline ascending
C21_ListOwnedFilteredOrdered ==
    \A rq \in GoalListRequests :
        \A r \in {goalList(goals, rq.u, rq.p.status)} :
            /\ r.code = 200
            /\ Len(r.body) = Cardinality(Listed(rq.u, rq.p.status))
            /\ \A g \in Listed(rq.u, rq.p.status) :
                 \E i \in 1..Len(r.body) : ShowsGoal(r.body[i], g)
            /\ \A i, j \in 1..Len(r.body) :
                 i < j => r.body[i].deadline <= r.body[j].deadline
            /\ rq.p.status \notin {Txt(s) : s \in GoalStatuses}
                 => r.body = goalList(goals, rq.u, Undefined).body

\* C21 witness: a list was answered with two goals of the user, the one
\* created later first because it is due earlier, while the store holds a
\* third goal that the list leaves out
C21_Witness ==
    /\ last.op = "goalList" /\ last.code = 200
    /\ Len(last.body) = 2
    /\ last.body[1].id > last.body[2].id
    /\ last.body[1].deadline < last.body[2].deadline
    /\ \A i \in 1..2 : /\ last.body[i].id \in DOMAIN goals
                       /\ ShowsGoal(last.body[i], goals[last.body[i].id])
                       /\ last.body[i].userId = last.user
    /\ Cardinality(DOMAIN goals) = 3

-----------------------------------------------------------------------------
(* Properties of accounts and sessions (SpecAuth) *)

\* the last request came from a browser whose session had no userId
FromAnonymous == last.op # "none" /\ last.user = 0

\* C22: a request to a route other than registration and login that comes
\* without a userId in its session is answered 401
C22_SessionRequired ==
    (FromAnonymous /\ last.op \notin {"authRegister", "authLogin"}) => last.code = 401

\* the routes behind isAuthenticated answer 401 to such a request
C22_GuardedRoutesRequireSession ==
    (FromAnonymous /\ last.op \notin {"authRegister", "authLogin", "authCheck", "authLogout"})
        => last.code = 401

\* such a request changes no table and no session
C22_AnonymousChangesNothing ==
    [][(last'.op # "none" /\ last'.user = 0 /\ last'.op \notin {"authRegister", "authLogin"})
          => UNCHANGED <<goals, nextGoalId, txs, nextTxId, users, sessions>>]_vars

\* C23: a registration whose email is stored when its user would be created
\* is answered 400 and creates no user, also when the email was stored by
\* another registration while this one was in flight
C23_TakenEmailIs400 ==
    \A k \in DOMAIN calls :
        (calls[k].op = "authRegister" /\ userByEmail(users, calls[k].p.email) # Null)
            => \A r \in {registerCreate(users, sessions, calls[k].c, calls[k].p)} :
                   /\ r.resp.code = 400
                   /\ r.users = users

\* no two users share an email, and a registration that finds its email
\* stored creates no user
C23_EmailsUnique ==
    /\ \A i, j \in DOMAIN users : users[i].email = users[j].email => i = j
    /\ \A k \in DOMAIN calls :
         (calls[k].op = "authRegister" /\ userByEmail(users, calls[k].p.email) # Null)
             => registerCreate(users, sessions, calls[k].c, calls[k].p).users = users

\* a registration that starts when its email is stored is answered 400
C23_TakenEmailAtStartIs400 ==
    \A c \in Users : \A k \in DOMAIN users :
        registerFind(users, sessions[c],
                     [email |-> Str(users[k].email), name |-> Txt("nome"),
                      password |-> Txt("segredo"), profilePhoto |-> Undefined]).code = 400

-----------------------------------------------------------------------------
(* Properties of goals past their deadline (SpecExpiry) *)

\* the stored goal g is past its deadline: the local day of its deadline is
\* before the current local day
Expired(g) == LocalDayNumber(g.deadline) < LocalDayNumber(now)

\* the date string d names a calendar day before the current local day
NamesEarlierDay(d) == MakeDay(d.y, d.m, d.d) < LocalDayNumber(now)

\* C26: on a stored goal past its deadline, whatever its status, an update
\* by its owner that supplies no deadline is answered 200, and so is
\* updateProgress; an update that supplies a deadline naming a day before
\* the current one is answered 400 and changes nothing, also when that
\* deadline is the one stored
C26_DeadlineCheckedWhenSupplied ==
    \A k \in DOMAIN goals :
        /\ Expired(goals[k]) =>
             /\ \A p \in GoalEditPayloads
                          \cup {GoalUpdatePayload(Undefined, Undefined, Txt(s), Undefined) :
                                  s \in GoalStatuses} :
                  goalUpdate(goals, goals[k].userId, Numeral(k), p).resp.code = 200
             /\ \A a \in 1..MaxAmount :
                  goalUpdateProgress(goals, goals[k].userId, Numeral(k),
                                     [amount |-> Num(a)]).resp.code = 200
        /\ \A d \in DeadlineValues \cup {DateStringOfDay(goals[k].deadline \div SlotsPerDay)} :
             NamesEarlierDay(d) =>
               \A r \in {goalUpdate(goals, goals[k].userId, Numeral(k),
                                    GoalUpdatePayload(Undefined, Undefined, Undefined, d))} :
                   r.resp.code = 400 /\ r.goals = goals

\* C26 witness: a cancelled goal past its deadline was updated by its owner
\* with success, and the update that sends its stored deadline again is
\* answered 400
C26_Witness ==
    /\ last.op \in {"goalUpdate", "goalUpdateProgress"} /\ last.code = 200
    /\ validateIntegerId(last.id).v \in DOMAIN goals
    /\ \A g \in {goals[validateIntegerId(last.id).v]} :
         /\ g.userId = last.user
         /\ last.seen.found /\ last.seen.status = "cancelled"
         /\ Expired(g)
         /\ NewDate(DateStringOfDay(g.deadline \div SlotsPerDay)).v = g.deadline
         /\ goalUpdate(goals, g.userId, last.id,
                       GoalUpdatePayload(Undefined, Undefined, Undefined,
                                         DateStringOfDay(g.deadline \div SlotsPerDay))).resp.code = 400

-----------------------------------------------------------------------------
(* Properties of the texts of a goal (SpecTexts) *)

\* C27: in an update of a stored goal by its owner, a category or
\* description that is null or the empty string stores null, one that is
\* absent leaves the stored value as it was, and one that is a text stores
\* the text
C27_ClearVersusAbsent ==
    \A k \in DOMAIN goals : \A p \in GoalTextPayloads :
        \A r \in {goalUpdate(goals, goals[k].userId, Numeral(k), p)} :
            /\ r.resp.code = 200
            /\ \A f \in {"category", "description"} :
                 /\ p[f] \in {Null, Txt("")} =>
                      r.goals[k][f] = Null /\ r.resp.body[f] = Null
                 /\ p[f] = Undefined => r.goals[k][f] = goals[k][f]
                 /\ p[f] \notin {Undefined, Null, Txt("")} => r.goals[k][f] = p[f]

\* C27 witness: an update has cleared the category of a goal created with a
\* category and a description and has left its description as it was
C27_Witness ==
    /\ last.op = "goalUpdate" /\ last.code = 200
    /\ validateIntegerId(last.id).v \in DOMAIN goals
    /\ \A g \in {goals[validateIntegerId(last.id).v]} :
         /\ g.category = Null
         /\ g.description = Txt("obra")
         /\ last.body.category = Null
         /\ last.body.description = Txt("obra")
-----------------------------------------------------------------------------
(* Properties of the handlers in flight (SpecRace) *)

\* the calls that have written, or tried to write, the row id of a table
Writers(tx, id) ==
    {k \in DOMAIN calls :
       /\ calls[k].order > 0
       /\ (calls[k].op \in {"txUpdate", "txDelete"}) = tx
       /\ validateIntegerId(calls[k].id).v = id}

\* the call of the set W that wrote last, and the one that wrote before it
LastOf(W) == CHOOSE k \in W : \A j \in W : calls[j].order <= calls[k].order

\* the goal id has been written by two or more calls, all of them
\* updateProgress, and all of them are answered
ProgressRace(id) ==
    /\ Cardinality(Writers(FALSE, id)) >= 2
    /\ \A k \in Writers(FALSE, id) : calls[k].op = "goalUpdateProgress"

\* C28: when two updateProgress calls on one goal have both read the goal
\* and both written, both are answered 200, the stored currentAmount is the
\* amount of the call that wrote last, and the stored currentAmount and
\* status are the pair that this one call computed and returned.
C28_LastWriteWins ==
    \A id \in 1..MaxGoals :
      ProgressRace(id) =>
        LET k == LastOf(Writers(FALSE, id))
        IN  /\ \A j \in Writers(FALSE, id) : calls[j].resp.code = 200
            /\ id \in DOMAIN goals
            /\ goals[id].currentAmount = calls[k].p.amount.v
            /\ goals[id].status = newStatus(calls[k].seen, calls[k].p.amount)
            /\ <<goals[id].currentAmount, goals[id].status>>
                 = <<calls[k].resp.body.currentAmount, calls[k].resp.body.status>>

\* two updateProgress calls read the goal before either wrote, and the one
\* that wrote last reached the target
C28_Witness ==
    \E id \in 1..MaxGoals :
      /\ ProgressRace(id)
      /\ \E j, k \in Writers(FALSE, id) :
           /\ calls[j].order < calls[k].order
           /\ calls[j].p.amount.v # calls[k].seen.currentAmount
           /\ calls[j].p.amount.v < calls[k].p.amount.v
           /\ goals[id].status = "completed"

\* what is stored after the call a and then the call b run one after the
\* other on the goal as it was created
SerialPair(id, a, b) ==
    LET G0 == (id :> [goals[id] EXCEPT !.currentAmount = 0, !.status = "active"])
        G1 == goalUpdateProgress(G0, a.u, a.id, a.p).goals
        G2 == goalUpdateProgress(G1, b.u, b.id, b.p).goals
    IN  <<G2[id].currentAmount, G2[id].status>>

\* C29 (as stated): for every interleaving of the reads and writes of two
\* updateProgress calls on one goal, the stored currentAmount and status are
\* those of running the two calls one after the other in some order.
C29_Serializable ==
    \A id \in 1..MaxGoals :
      (ProgressRace(id) /\ Cardinality(Writers(FALSE, id)) = 2) =>
        \E j, k \in Writers(FALSE, id) :
          /\ j # k
          /\ <<goals[id].currentAmount, goals[id].status>>
               \in {SerialPair(id, calls[j], calls[k]), SerialPair(id, calls[k], calls[j])}

\* C29 (amended): the stored currentAmount and status are those that the
\* call that wrote last computed from the row it had read; they are those of
\* running that call after the one that wrote before it whenever the status
\* it had read is the status the earlier write left.
C29_LastWriterFromItsRead ==
    \A id \in 1..MaxGoals :
      ProgressRace(id) =>
        LET k == LastOf(Writers(FALSE, id))
            j == LastOf(Writers(FALSE, id) \ {k})
            pair == <<goals[id].currentAmount, goals[id].status>>
        IN  /\ pair = <<parseFloat(calls[k].p.amount).v,
                        newStatus(calls[k].seen, parseFloat(calls[k].p.amount))>>
            /\ calls[k].seen.status = calls[j].resp.body.status
                 => \A r \in {goalUpdateProgress(
                                (id :> [f \in DOMAIN goals[id] |-> calls[j].resp.body[f]]),
                                calls[k].u, calls[k].id, calls[k].p).goals[id]} :
                      pair = <<r.currentAmount, r.status>>

\* the call that wrote last had read the goal as active, the other call
\* completed it in between, and the goal is stored active below its target
C29_Witness ==
    \E id \in 1..MaxGoals :
      /\ ProgressRace(id)
      /\ \E j, k \in Writers(FALSE, id) :
           /\ calls[j].order < calls[k].order
           /\ calls[j].resp.body.status = "completed"
           /\ calls[k].seen.status = "active"
           /\ goals[id].status = "active"
           /\ goals[id].currentAmount < goals[id].targetAmount

\* the delete d and the update w are on one row, both have read it, and the
\* delete was applied before the write of the update
DeletedInFlight(d, w) ==
    /\ calls[d].op \in {"goalDelete", "txDelete"}
    /\ calls[w].op \in (IF calls[d].op = "txDelete" THEN {"txUpdate"}
                        ELSE {"goalUpdate", "goalUpdateProgress"})
    /\ validateIntegerId(calls[d].id).v = validateIntegerId(calls[w].id).v
    /\ calls[d].order > 0
    /\ calls[d].order < calls[w].order

\* C30: when a delete is applied between the read and the write of an
\* update or updateProgress on the same goal or transaction, the row is
\* absent afterwards, the delete is answered 200 and the update is answered
\* with the error 500 and no row.
C30_DeletedStaysDeleted ==
    \A d, w \in DOMAIN calls :
      DeletedInFlight(d, w) =>
        /\ validateIntegerId(calls[d].id).v
             \notin DOMAIN (IF calls[d].op = "txDelete" THEN txs ELSE goals)
        /\ calls[d].resp.code = 200
        /\ calls[w].resp.code = 500
        /\ calls[w].resp.body = Null

\* a goal was deleted under an updateProgress that had read it
C30_Witness ==
    \E d, w \in DOMAIN calls :
      /\ DeletedInFlight(d, w)
      /\ calls[w].op = "goalUpdateProgress"
      /\ calls[w].pc = "done"
      /\ last = calls[w].resp

\* the same for a transaction under an update that had read it
C30_WitnessTx ==
    \E d, w \in DOMAIN calls :
      /\ DeletedInFlight(d, w)
      /\ calls[w].op = "txUpdate"
      /\ calls[w].pc = "done"
      /\ last.code = 500

====
